---- MODULE Spec2Model ----
(***************************************************************************)
(* A model of the planning subsystem of motivational-printer:              *)
(*   - Planner.generatePlan / _executeTool / _savePlanningResult           *)
(*     (the bounded tool-use loop and the persistence of its result), and  *)
(*   - constructTree (linearisation of a parent-pointer message graph).    *)
(* Spec      : one planning run, from a disk that holds either nothing or  *)
(*             the artifacts of an earlier completed run.                  *)
(* SpecTree  : constructTree applied to bounded message sets.              *)
(* SpecTreeLive: the same, the function's own steps taken fairly.          *)
(* SpecStore : planning runs one after another on one output directory,    *)
(*             files removed in between, and Planner.loadLatestPlan.       *)
(* SpecClaude: one claude_ai_* tool call served by ClaudeAIConnector.      *)
(* SpecIMessage: calls, possibly overlapping, on one IMessageConnector.    *)
(* SpecIMessageLive: the same, with the connector's own steps taken fairly.*)
(* SpecFn    : the pure functions of the subsystem, each applied once to   *)
(*             an argument drawn from a bounded set.                       *)
(* SpecStep  : one tool-execution step of generatePlan driving the         *)
(*             IMessageConnector of the planner.                           *)
(***************************************************************************)
EXTENDS Integers, Sequences, FiniteSets, TLC

VARIABLES
    mode,            \* which specification drives the state:
                     \* "plan" | "tree" | "store" | "claude" | "imessage" | "fn"
                     \* | "step"
    \* ---- Planner.generatePlan --------------------------------------------
    pc,              \* position inside generatePlan / _savePlanningResult
    messages,        \* the transcript (`messages`, later `conversationHistory`)
    iterations,      \* the loop counter
    toolUseBlocks,   \* tool_use blocks of the response being served
    toolIdx,         \* index of the next block of the for-loop
    toolResults,     \* results collected by the for-loop so far
    planningResult,  \* the raw planning result handed to _savePlanningResult
    error,           \* message of the error generatePlan failed with, or <<>>
    disk,            \* the output directory: prompt, results, histories, metadata
    \* ---- environment and history (not program state) ---------------------
    nextId,          \* next tool_use id the model API hands out
    modelCalls,      \* number of messages.create calls issued
    toolRounds,      \* number of completed tool rounds (reply turns pushed)
    clock,           \* what new Date() reads
    disk0,           \* the output directory as it was when the run started
    lastSent,        \* the `messages` list passed to the previous model call
    dispatchLog,     \* one entry per _executeTool call, in call order
    nVaried,         \* rounds so far that were not plain (see MaxVaried)
    roundVaried,     \* whether the round being served is counted in nVaried
    \* ---- constructTree ----------------------------------------------------
    chat_messages,   \* fullData.chat_messages
    leaf,            \* fullData.current_leaf_message_uuid
    startingMessage, \* index into chat_messages, or 0 for undefined
    allMessages,     \* the result being built (indices into chat_messages)
    tpc,             \* "loop" | "returned"
    steps,           \* loop iterations executed
    \* ---- Planner.loadLatestPlan and the runs before it --------------------
    loaded,          \* completion of the last loadLatestPlan call, or <<>>
    runLog,          \* one entry per earlier run: timestamp, result, how it ended
    removals,        \* files removed from the output directory so far
    \* ---- a claude_ai_* tool call -------------------------------------------
    cpc,             \* position inside the connector operation
    useAuthentication, \* this.useAuthentication
    dataFile,        \* the file at this.dataPath: <<>> or <<its text>>
    toolCall,        \* the tool_use block being dispatched: name and input
    fetches,         \* outcomes of the _fetchFromAPI calls made, in order
    source,          \* where the conversations in use came from
    allConversations,\* the value _fetchConversations returned
    opResult,        \* completion of the connector operation, or <<>>
    toolResult,      \* completion of _executeTool, or <<>>
    \* ---- IMessageConnector -------------------------------------------------
    tempDir,         \* this.tempDir, set by the constructor
    tmp,             \* the temporary directory tree: path -> set of files
    calls,           \* the calls made on the connector, in start order
    now,             \* what Date.now() reads
    \* ---- one application of a pure function --------------------------------
    fn,              \* the function applied
    arg,             \* its argument
    out              \* <<>> before the call, <<its value>> after it

planVars == <<pc, messages, iterations, toolUseBlocks, toolIdx, toolResults,
              planningResult, error, disk, nextId, modelCalls, toolRounds,
              clock, disk0,
              lastSent, dispatchLog, nVaried, roundVaried>>
treeVars == <<chat_messages, leaf, startingMessage, allMessages, tpc, steps>>
storeVars == <<loaded, runLog, removals>>
claudeVars == <<cpc, useAuthentication, dataFile, toolCall, fetches, source,
                allConversations, opResult, toolResult>>
imessageVars == <<tempDir, tmp, calls, now>>
fnVars == <<fn, arg, out>>
extVars == <<storeVars, claudeVars, imessageVars, fnVars>>
vars == <<mode, planVars, treeVars, extVars>>

(***************************************************************************)
(* Bounds of the model.                                                    *)
(***************************************************************************)
\* rounds per run that are not plain; a plain round is the basic single-call
\* request whose connector operation returns, or the basic final answer
MaxVaried == 1
\* messages in a constructTree input
MaxMsgs == 3
\* planning runs on one output directory
MaxRuns == 2
\* files removed from the output directory between runs
MaxRemovals == 1
\* calls made on one IMessageConnector
MaxCalls == 2

(***************************************************************************)
(* Text.  A text is a sequence of tokens; the two delimiters of the final  *)
(* instruction block and the template placeholders are single tokens.      *)
(***************************************************************************)
NL == "\n"
SP == " "
OPEN == "<prompt scope=\"user\" for=\"Your Printer\" updated>"
CLOSE == "</prompt>"
PH_COLLECTED_INFO == "%%COLLECTED_INFO%%"
PH_TODAY_DATE == "%%TODAY_DATE%%"
Whitespace == {NL, SP}

RECURSIVE Flatten(_)
Flatten(ss) == IF ss = <<>> THEN <<>> ELSE Head(ss) \o Flatten(Tail(ss))

RECURSIVE Join(_, _)
\* Array.prototype.join: the separator goes between adjacent elements only
Join(ss, sep) ==
    IF ss = <<>> THEN <<>>
    ELSE IF Len(ss) = 1 THEN Head(ss)
    ELSE Head(ss) \o sep \o Join(Tail(ss), sep)

RECURSIVE TrimLeft(_)
TrimLeft(s) ==
    IF s # <<>> /\ Head(s) \in Whitespace THEN TrimLeft(Tail(s)) ELSE s

RECURSIVE TrimRight(_)
TrimRight(s) ==
    IF s # <<>> /\ s[Len(s)] \in Whitespace
    THEN TrimRight(SubSeq(s, 1, Len(s) - 1)) ELSE s

Trim(s) == TrimRight(TrimLeft(s))

IsPrefix(s, t) == Len(s) <= Len(t) /\ SubSeq(t, 1, Len(s)) = s
IsStrictPrefix(s, t) == Len(s) < Len(t) /\ SubSeq(t, 1, Len(s)) = s

(***************************************************************************)
(* Program constants.                                                      *)
(***************************************************************************)
MaxIterations == 10
DaysToLookBack == 7

\* the fallback user prompt template of _loadPrompts
UserPromptTemplate ==
    <<"Write a supportive letter based on the following information:",
      NL, NL, PH_COLLECTED_INFO>>

\* getFullDateFormatted(): the formatted current date, one token
TodayDate == "TODAY"

\* the opening user turn built by generatePlan
OpeningMessage ==
    [role |-> "user",
     content |-> <<"PLANNER_PROMPT", NL, NL, "Today is ", TodayDate,
                   ". Please use the available tools ... Look back ",
                   "DAYS", " days from today ...">>]

(***************************************************************************)
(* The tool catalogue and the dispatcher.                                  *)
(***************************************************************************)
ToolNames ==
    {"imessage_get_conversations", "imessage_get_conversation_messages",
     "claude_ai_get_conversations", "claude_ai_get_conversation_messages"}

\* a property read of a plain object: undefined when the key is absent
Get(obj, key) == IF key \in DOMAIN obj THEN obj[key] ELSE "undefined"

\* What a connector operation does when awaited: it returns data or throws.
ConnectorReturn(data) == [kind |-> "return", data |-> data]
ConnectorThrow(msg) == [kind |-> "throw", message |-> msg]
ConnectorError == <<"connector operation failed">>
ConnectorData == <<"item">>

\* Completion of a function call: a returned value or a raised error.
Returned(v) == [kind |-> "return", value |-> v]
Raised(msg) == [kind |-> "raise", message |-> msg]

\* the body of the try block of _executeTool
ExecuteToolBody(toolName, parameters, outcome) ==
    CASE toolName \in {"imessage_get_conversations",
                       "claude_ai_get_conversations"} ->
            IF outcome.kind = "throw" THEN Raised(outcome.message)
            ELSE Returned([conversations |-> outcome.data,
                           count |-> Len(outcome.data),
                           date_range |-> <<Get(parameters, "start_date"), " to ",
                                            Get(parameters, "end_date")>>])
      [] toolName \in {"imessage_get_conversation_messages",
                       "claude_ai_get_conversation_messages"} ->
            IF outcome.kind = "throw" THEN Raised(outcome.message)
            ELSE Returned([messages |-> outcome.data,
                           count |-> Len(outcome.data),
                           conversation_id |-> Get(parameters, "conversation_id")])
      [] OTHER -> Raised(<<"Unknown tool: ", toolName>>)

ExecuteToolRethrow(msg, toolName, parameters) == Raised(msg)

\* the catch clause of _executeTool
ExecuteToolCatch(msg, toolName, parameters) ==
    Returned([error |-> msg, tool |-> toolName, parameters |-> parameters])

\* Planner._executeTool
ExecuteTool(toolName, parameters, outcome) ==
    LET r == ExecuteToolBody(toolName, parameters, outcome)
    IN  IF r.kind = "raise"
        THEN ExecuteToolCatch(r.message, toolName, parameters)
        ELSE r

\* JSON.stringify / JSON.parse of plain data: the text whose parse is v
JSONStringify(v) == [json |-> v]
JSONParse(t) == t.json

(***************************************************************************)
(* What the model API may answer.                                          *)
(***************************************************************************)
Text(t) == [type |-> "text", text |-> t]
ToolUse(name, input) == [type |-> "tool_use", id |-> 0, name |-> name, input |-> input]

DateRange == [start_date |-> "2025-06-01", end_date |-> "2025-06-08"]
ConvOnly == [conversation_id |-> "c1"]

\* the basic request: one call of one tool
BasicRequest == <<ToolUse("imessage_get_conversations", DateRange)>>

\* other requests: several calls, text between them, an unregistered name,
\* a missing argument
VariedRequests ==
    { <<Text(<<"looking">>), ToolUse("claude_ai_get_conversations", DateRange),
        ToolUse("no_such_tool", ConvOnly)>>,
      <<ToolUse("imessage_get_conversation_messages", ConvOnly @@ DateRange),
        Text(<<"and">>),
        ToolUse("claude_ai_get_conversation_messages", DateRange)>> }

\* the basic final answer: two text blocks and no tool_use block
BasicFinal == <<Text(<<"a">>), Text(<<"b">>)>>

\* other responses without any tool_use block
VariedFinals ==
    { <<>>,
      <<Text(<<"x", NL, OPEN, SP, "p", NL>>), Text(<<"q", SP, CLOSE, "y", CLOSE>>)>>,
      <<Text(<<CLOSE, "n", OPEN, "m">>)>> }

\* the API numbers the tool_use blocks of a response with fresh ids
WithIds(shape, base) ==
    [i \in 1..Len(shape) |->
        IF shape[i].type = "tool_use"
        THEN [shape[i] EXCEPT !.id = base + i] ELSE shape[i]]

(***************************************************************************)
(* Result extraction and the output directory.                             *)
(***************************************************************************)
\* least index >= from of token tok in s, 0 if there is none
IndexFrom(s, tok, from) ==
    LET hits == {i \in from..Len(s) : s[i] = tok}
    IN  IF hits = {} THEN 0 ELSE CHOOSE i \in hits : \A j \in hits : i <= j

PromptMatchGreedy(s) ==
    LET o == IndexFrom(s, OPEN, 1)
        closes == {i \in 1..Len(s) : i > o /\ s[i] = CLOSE}
    IN  IF o = 0 \/ closes = {} THEN <<>>
        ELSE <<SubSeq(s, o + 1, (CHOOSE i \in closes : \A j \in closes : j <= i) - 1)>>

\* planningResult.match(/<prompt ... updated>([\s\S]*?)<\/prompt>/):
\* <<>> for null, else <<capture group 1>>
PromptMatch(s) ==
    LET o == IndexFrom(s, OPEN, 1)
        c == IF o = 0 THEN 0 ELSE IndexFrom(s, CLOSE, o + 1)
    IN  IF c = 0 THEN <<>> ELSE <<SubSeq(s, o + 1, c - 1)>>

\* Planner._renderTemplate: a placeholder with a value is replaced by it,
\* every other token is kept
RenderTemplate(template, variables) ==
    Flatten([i \in 1..Len(template) |->
                IF template[i] \in DOMAIN variables
                THEN variables[template[i]] ELSE <<template[i]>>])

\* Planner._loadPrompts: this._userPromptTemplate is the text of
\* prompts/private/USER.md when all three prompt files can be read, and the
\* built-in template when reading any of them fails
LoadUserPromptTemplate(files) ==
    IF files.planner /\ files.system /\ files.user # <<>> THEN files.user[1]
    ELSE UserPromptTemplate

\* the enhanced user prompt computed by _savePlanningResult of a planner
\* whose this._userPromptTemplate is `template`
EnhancedUserPromptFrom(template, result) ==
    LET m == PromptMatch(result)
    IN  IF m # <<>> THEN Trim(m[1])
        ELSE RenderTemplate(template,
                            (PH_TODAY_DATE :> <<TodayDate>>)
                            @@ (PH_COLLECTED_INFO :> result))

\* the same for the planner of the runs modelled below, which has the
\* built-in template
EnhancedUserPrompt(result) == EnhancedUserPromptFrom(UserPromptTemplate, result)

\* A file is <<>> when it does not exist and <<content>> when it does; the
\* timestamped files are functions from the timestamp in their name.
PromptPath == <<"enhanced-user-prompt.md">>
FullResultPath(ts) == <<"planning-result-", ts, ".md">>
ConversationPath(ts) == <<"conversation-history-", ts, ".json">>

EmptyDisk == [prompt |-> <<>>, results |-> <<>>, histories |-> <<>>, metadata |-> <<>>]

Metadata(ts) ==
    [timestamp |-> ts, date |-> TodayDate, promptPath |-> PromptPath,
     fullResultPath |-> FullResultPath(ts),
     conversationPath |-> ConversationPath(ts),
     daysLookedBack |-> DaysToLookBack]

\* the four writeFileSync calls of _savePlanningResult, in program order
WritePromptFile(d, result) == [d EXCEPT !.prompt = <<EnhancedUserPrompt(result)>>]
WriteFullResultOnly(d, ts, result) == [d EXCEPT !.results = (ts :> result)]
WriteFullResult(d, ts, result) == [d EXCEPT !.results = (ts :> result) @@ @]
WriteConversation(d, ts, history) ==
    [d EXCEPT !.histories = (ts :> JSONStringify(history)) @@ @]
WriteMetadataKeepsFirst(d, ts) ==
    IF d.metadata # <<>> THEN d
    ELSE [d EXCEPT !.metadata = <<JSONStringify(Metadata(ts))>>]

WriteMetadata(d, ts) == [d EXCEPT !.metadata = <<JSONStringify(Metadata(ts))>>]

\* what a completed run with this result and history leaves on a disk d
SavedRun(d, ts, result, history) ==
    WriteMetadata(WriteConversation(WriteFullResult(WritePromptFile(d, result),
                                                    ts, result), ts, history), ts)

\* the artifacts of an earlier completed run, written at time 0
EarlierResult == <<"old", OPEN, "older", CLOSE>>
EarlierHistory ==
    <<OpeningMessage, [role |-> "assistant", content |-> <<Text(EarlierResult)>>]>>
EarlierDisk == SavedRun(EmptyDisk, 0, EarlierResult, EarlierHistory)

(***************************************************************************)
(* Planner.generatePlan.                                                   *)
(***************************************************************************)
LoopConditionOffByOne == iterations <= MaxIterations

\* while (iterations < maxIterations)
LoopCondition == iterations < MaxIterations

\* messages: messages -- the whole list is passed to messages.create
SentToModel(msgs) == msgs

\* response.content.filter(block => block.type === 'tool_use')
ToolUseBlocksOf(content) == SelectSeq(content, LAMBDA b : b.type = "tool_use")

PlanningResultOfFirstBlock(content) ==
    LET textBlocks == SelectSeq(content, LAMBDA b : b.type = "text")
    IN  IF Len(textBlocks) = 0 THEN <<>> ELSE textBlocks[1].text

\* textBlocks.map(block => block.text).join('\n')
PlanningResultOf(content) ==
    LET textBlocks == SelectSeq(content, LAMBDA b : b.type = "text")
    IN  Join([i \in 1..Len(textBlocks) |-> textBlocks[i].text], <<NL>>)

PushAssistantPruned(msgs, content) ==
    Append(IF Len(msgs) > 2 THEN <<msgs[1], msgs[Len(msgs)]>> ELSE msgs,
           [role |-> "assistant", content |-> content])

PushAssistantTwice(msgs, content) ==
    Append(Append(msgs, [role |-> "assistant", content |-> content]),
           [role |-> "assistant", content |-> content])

\* messages.push({role: 'assistant', content: response.content})
PushAssistant(msgs, content) ==
    Append(msgs, [role |-> "assistant", content |-> content])

PushToolResultByIndex(results, toolBlock, result) ==
    Append(results, [tool_use_id |-> Len(results), content |-> JSONStringify(result)])

PushToolResultSkipErrors(results, toolBlock, result) ==
    IF "error" \in DOMAIN result THEN results
    ELSE Append(results, [tool_use_id |-> toolBlock.id, content |-> JSONStringify(result)])

\* toolResults.push({tool_use_id: toolBlock.id, content: JSON.stringify(result)})
PushToolResult(results, toolBlock, result) ==
    Append(results, [tool_use_id |-> toolBlock.id, content |-> JSONStringify(result)])

PushReplyReversed(msgs, results) ==
    Append(msgs, [role |-> "user",
                  content |-> [i \in 1..Len(results) |->
                                  [type |-> "tool_result",
                                   tool_use_id |-> results[Len(results) + 1 - i].tool_use_id,
                                   content |-> results[Len(results) + 1 - i].content]]])

\* a reply that gives every tool result a user turn of its own
PushReplyPerResult(msgs, results) ==
    msgs \o [i \in 1..Len(results) |->
                [role |-> "user",
                 content |-> <<[type |-> "tool_result",
                                tool_use_id |-> results[i].tool_use_id,
                                content |-> results[i].content]>>]]

\* messages.push({role: 'user', content: toolResults.map(...)})
PushReply(msgs, results) ==
    Append(msgs, [role |-> "user",
                  content |-> [i \in 1..Len(results) |->
                                  [type |-> "tool_result",
                                   tool_use_id |-> results[i].tool_use_id,
                                   content |-> results[i].content]]])

TreeIdle ==
    /\ chat_messages = <<>> /\ leaf = "none" /\ startingMessage = 0
    /\ allMessages = <<>> /\ tpc = "idle" /\ steps = 0

StoreIdle == loaded = <<>> /\ runLog = <<>> /\ removals = 0

ClaudeIdle ==
    /\ cpc = "idle" /\ useAuthentication = TRUE /\ dataFile = <<>>
    /\ toolCall = <<>> /\ fetches = <<>> /\ source = "none"
    /\ allConversations = <<>> /\ opResult = <<>> /\ toolResult = <<>>

IMessageIdle == tempDir = <<>> /\ tmp = <<>> /\ calls = <<>> /\ now = 0
FnIdle == fn = "none" /\ arg = <<>> /\ out = <<>>

\* the state when generatePlan reaches its loop for the first time
Init ==
    /\ mode = "plan"
    /\ pc = "loop"
    /\ messages = <<OpeningMessage>>
    /\ iterations = 0
    /\ toolUseBlocks = <<>> /\ toolIdx = 0 /\ toolResults = <<>>
    /\ planningResult = <<>>
    /\ error = <<>>
    /\ disk0 \in {EmptyDisk, EarlierDisk}
    /\ disk = disk0
    /\ clock = 1
    /\ nextId = 0 /\ modelCalls = 0 /\ toolRounds = 0
    /\ lastSent = <<>> /\ dispatchLog = <<>>
    /\ nVaried = 0 /\ roundVaried = FALSE
    /\ TreeIdle
    /\ StoreIdle /\ ClaudeIdle /\ IMessageIdle /\ FnIdle

\* lines 271-299 and 301-302: one messages.create call that answers `content`
Respond(content) ==
    /\ mode = "plan" /\ pc = "loop" /\ LoopCondition
    /\ modelCalls' = modelCalls + 1
    /\ lastSent' = SentToModel(messages)
    /\ messages' = PushAssistant(messages, content)
    /\ LET blocks == ToolUseBlocksOf(content)
       IN  IF Len(blocks) = 0
           THEN /\ planningResult' = PlanningResultOf(content)
                /\ pc' = "save_prompt"
                /\ UNCHANGED <<toolUseBlocks, toolIdx, toolResults>>
           ELSE /\ toolUseBlocks' = blocks
                /\ toolIdx' = 1
                /\ toolResults' = <<>>
                /\ pc' = "exec"
                /\ UNCHANGED planningResult
    /\ nextId' = nextId + Len(content)
    /\ UNCHANGED <<iterations, error, disk, disk0, clock, toolRounds, dispatchLog,
                   treeVars, extVars, mode>>

ModelAnswersFinal ==
    Respond(BasicFinal) /\ UNCHANGED <<nVaried, roundVaried>>

ModelAnswersVariedFinal ==
    /\ nVaried < MaxVaried
    /\ \E f \in VariedFinals : Respond(f)
    /\ nVaried' = nVaried + 1
    /\ roundVaried' = TRUE

ModelRequestsBasic ==
    Respond(WithIds(BasicRequest, nextId)) /\ UNCHANGED <<nVaried, roundVaried>>

ModelRequestsVaried ==
    /\ nVaried < MaxVaried
    /\ \E r \in VariedRequests : Respond(WithIds(r, nextId))
    /\ nVaried' = nVaried + 1
    /\ roundVaried' = TRUE

\* messages.create rejects: the error leaves generatePlan
ModelCallFails ==
    /\ mode = "plan" /\ pc = "loop" /\ LoopCondition
    /\ modelCalls' = modelCalls + 1
    /\ lastSent' = SentToModel(messages)
    /\ pc' = "failed"
    /\ error' = <<"model call failed">>
    /\ UNCHANGED <<messages, iterations, toolUseBlocks, toolIdx, toolResults,
                   planningResult, disk, disk0, clock, nextId, toolRounds,
                   dispatchLog, nVaried, roundVaried, treeVars, extVars, mode>>

ThrowExceededSavingPartial ==
    /\ mode = "plan" /\ pc = "loop" /\ ~LoopCondition
    /\ pc' = "failed"
    /\ error' = <<"Planning exceeded maximum iterations">>
    /\ disk' = WritePromptFile(disk, <<>>)
    /\ UNCHANGED <<messages, iterations, toolUseBlocks, toolIdx, toolResults,
                   planningResult, disk0, clock, nextId, modelCalls,
                   toolRounds, lastSent, dispatchLog, nVaried, roundVaried,
                   treeVars, extVars, mode>>

\* line 325
ThrowExceeded ==
    /\ mode = "plan" /\ pc = "loop" /\ ~LoopCondition
    /\ pc' = "failed"
    /\ error' = <<"Planning exceeded maximum iterations">>
    /\ UNCHANGED <<messages, iterations, toolUseBlocks, toolIdx, toolResults,
                   planningResult, disk, disk0, clock, nextId, modelCalls,
                   toolRounds, lastSent, dispatchLog, nVaried, roundVaried,
                   treeVars, extVars, mode>>

\* lines 303-310: one pass of the for-loop, the connector answering `outcome`
Dispatch(outcome) ==
    /\ mode \in {"plan", "step"} /\ pc = "exec" /\ toolIdx <= Len(toolUseBlocks)
    /\ LET toolBlock == toolUseBlocks[toolIdx]
           done == ExecuteTool(toolBlock.name, toolBlock.input, outcome)
       IN  /\ dispatchLog' = Append(dispatchLog,
                                    [id |-> toolBlock.id, name |-> toolBlock.name,
                                     input |-> toolBlock.input,
                                     outcome |-> outcome, completion |-> done])
           /\ IF done.kind = "return"
              THEN /\ toolResults' = PushToolResult(toolResults, toolBlock, done.value)
                   /\ toolIdx' = toolIdx + 1
                   /\ UNCHANGED <<pc, error>>
              ELSE /\ pc' = "failed"
                   /\ error' = done.message
                   /\ UNCHANGED <<toolResults, toolIdx>>
    /\ UNCHANGED <<messages, iterations, toolUseBlocks, planningResult, disk,
                   disk0, clock, nextId, modelCalls, toolRounds, lastSent,
                   treeVars, extVars, mode>>

\* the connector operation returns (for a name outside the catalogue no
\* connector is reached and the outcome is not read)
ToolReturns ==
    Dispatch(ConnectorReturn(ConnectorData)) /\ UNCHANGED <<nVaried, roundVaried>>

\* the connector operation throws
ToolThrows ==
    /\ pc = "exec" /\ toolIdx <= Len(toolUseBlocks)
    /\ toolUseBlocks[toolIdx].name \in ToolNames
    /\ roundVaried \/ nVaried < MaxVaried
    /\ Dispatch(ConnectorThrow(ConnectorError))
    /\ nVaried' = IF roundVaried THEN nVaried ELSE nVaried + 1
    /\ roundVaried' = TRUE

\* lines 312-322: the reply turn, iterations++
ReplyTurn ==
    /\ mode \in {"plan", "step"} /\ pc = "exec" /\ toolIdx > Len(toolUseBlocks)
    /\ messages' = PushReply(messages, toolResults)
    /\ iterations' = iterations + 1
    /\ toolRounds' = toolRounds + 1
    /\ pc' = "loop"
    /\ roundVaried' = FALSE
    /\ UNCHANGED <<toolUseBlocks, toolIdx, toolResults, planningResult, error,
                   disk, disk0, clock, nextId, modelCalls, lastSent, dispatchLog,
                   nVaried, treeVars, extVars, mode>>

\* _savePlanningResult, one writeFileSync at a time
SaveStep(at, next, d) ==
    /\ mode \in {"plan", "store"} /\ pc = at
    /\ disk' = d
    /\ pc' = next
    /\ UNCHANGED <<messages, iterations, toolUseBlocks, toolIdx, toolResults,
                   planningResult, error, disk0, clock, nextId, modelCalls,
                   toolRounds, lastSent, dispatchLog, nVaried, roundVaried,
                   treeVars, extVars, mode>>

SavePrompt == SaveStep("save_prompt", "save_result", WritePromptFile(disk, planningResult))
SaveFullResult ==
    SaveStep("save_result", "save_history", WriteFullResult(disk, clock, planningResult))
SaveConversation ==
    SaveStep("save_history", "save_metadata", WriteConversation(disk, clock, messages))
SaveMetadata == SaveStep("save_metadata", "returned", WriteMetadata(disk, clock))

\* a writeFileSync throws: the error leaves generatePlan, the file is untouched
WriteFails ==
    /\ mode \in {"plan", "store"}
    /\ pc \in {"save_prompt", "save_result", "save_history", "save_metadata"}
    /\ pc' = "failed"
    /\ error' = <<"write failed">>
    /\ UNCHANGED <<messages, iterations, toolUseBlocks, toolIdx, toolResults,
                   planningResult, disk, disk0, clock, nextId, modelCalls,
                   toolRounds, lastSent, dispatchLog, nVaried, roundVaried,
                   treeVars, extVars, mode>>

Next ==
    \/ ModelAnswersFinal
    \/ ModelAnswersVariedFinal
    \/ ModelRequestsBasic
    \/ ModelRequestsVaried
    \/ ModelCallFails
    \/ ThrowExceeded
    \/ ToolReturns
    \/ ToolThrows
    \/ ReplyTurn
    \/ SavePrompt
    \/ SaveFullResult
    \/ SaveConversation
    \/ SaveMetadata
    \/ WriteFails

Spec == Init /\ [][Next]_vars

(***************************************************************************)
(* constructTree (connectors/claude-ai/tree.mjs).                          *)
(***************************************************************************)
Uuids == <<"m1", "m2", "m3", "m4", "m5">>
NULL == "null"
\* an id that no message of any input carries (such as the all-zero parent
\* id the service gives to first messages, or a leaf id the set lacks)
ABSENT == "absent"

\* loop iterations allowed before the model stops following a cycle
StepCap == MaxMsgs + 1

\* the message arrays of length n: message i has uuid Uuids[i]
MessageArrays(n) ==
    {[i \in 1..n |-> [uuid |-> Uuids[i], parent_message_uuid |-> par[i]]] :
        par \in [1..n -> {Uuids[j] : j \in 1..n} \cup {NULL, ABSENT}]}

IndexOfOrFirst(msgs, uuid) ==
    LET hits == {i \in 1..Len(msgs) : msgs[i].uuid = uuid}
    IN  IF hits = {} THEN (IF Len(msgs) > 0 THEN 1 ELSE 0)
        ELSE CHOOSE i \in hits : \A j \in hits : j <= i

\* a lookup that falls back to the last message when no message has the id
IndexOfOrLast(msgs, uuid) ==
    LET hits == {i \in 1..Len(msgs) : msgs[i].uuid = uuid}
    IN  IF hits = {} THEN Len(msgs)
        ELSE CHOOSE i \in hits : \A j \in hits : j <= i

\* an index map that is off by one: the message after the one carrying the id
IndexOfShifted(msgs, uuid) ==
    LET hits == {i \in 1..Len(msgs) : msgs[i].uuid = uuid}
    IN  IF hits = {} THEN 0
        ELSE LET i == CHOOSE i \in hits : \A j \in hits : j <= i
             IN  IF i < Len(msgs) THEN i + 1 ELSE 1

\* chat_messages[uuidsToIndicesMap[uuid]]: the index of the message (the last
\* one, were an id repeated), 0 standing for undefined
IndexOf(msgs, uuid) ==
    LET hits == {i \in 1..Len(msgs) : msgs[i].uuid = uuid}
    IN  IF hits = {} THEN 0 ELSE CHOOSE i \in hits : \A j \in hits : j <= i

\* !startingMessage?.parent_message_uuid
LoopBreaks(msgs, idx) ==
    IF idx = 0 THEN TRUE ELSE msgs[idx].parent_message_uuid = NULL

PlanIdle ==
    /\ pc = "idle" /\ messages = <<>> /\ iterations = 0
    /\ toolUseBlocks = <<>> /\ toolIdx = 0 /\ toolResults = <<>>
    /\ planningResult = <<>> /\ error = <<>>
    /\ disk0 = EmptyDisk /\ disk = EmptyDisk /\ clock = 0
    /\ nextId = 0 /\ modelCalls = 0 /\ toolRounds = 0
    /\ lastSent = <<>> /\ dispatchLog = <<>>
    /\ nVaried = 0 /\ roundVaried = FALSE

\* the arguments of a constructTree call
InitTree ==
    /\ mode = "tree"
    /\ \E n \in 0..MaxMsgs :
          /\ chat_messages \in MessageArrays(n)
          /\ leaf \in {Uuids[j] : j \in 1..n} \cup {ABSENT}
    /\ startingMessage = 0
    /\ allMessages = <<>>
    /\ tpc = "start"
    /\ steps = 0
    /\ PlanIdle
    /\ StoreIdle /\ ClaudeIdle /\ IMessageIdle /\ FnIdle

\* lines 2-12: index, look the leaf up, return [] when it is not found
TreeStart ==
    /\ mode = "tree" /\ tpc = "start"
    /\ startingMessage' = IndexOf(chat_messages, leaf)
    /\ allMessages' = <<>>
    /\ tpc' = IF IndexOf(chat_messages, leaf) = 0 THEN "returned" ELSE "loop"
    /\ UNCHANGED <<chat_messages, leaf, steps, planVars, extVars, mode>>

\* lines 15, 21: the loop breaks and the function returns
TreeBreak ==
    /\ mode = "tree" /\ tpc = "loop"
    /\ LoopBreaks(chat_messages, startingMessage)
    /\ tpc' = "returned"
    /\ UNCHANGED <<chat_messages, leaf, startingMessage, allMessages, steps,
                   planVars, extVars, mode>>

\* lines 16-18: unshift the message, move to its parent
TreeStep ==
    /\ mode = "tree" /\ tpc = "loop"
    /\ ~LoopBreaks(chat_messages, startingMessage)
    /\ steps < StepCap
    /\ allMessages' = <<chat_messages[startingMessage]>> \o allMessages
    /\ startingMessage' =
          IndexOf(chat_messages, chat_messages[startingMessage].parent_message_uuid)
    /\ steps' = steps + 1
    /\ UNCHANGED <<chat_messages, leaf, tpc, planVars, extVars, mode>>

NextTree == TreeStart \/ TreeBreak \/ TreeStep

SpecTree == InitTree /\ [][NextTree]_vars

(***************************************************************************)
(* Properties of Planner.generatePlan (checked under Spec).                *)
(***************************************************************************)
ExceededError == <<"Planning exceeded maximum iterations">>
ModelCallError == <<"model call failed">>
WriteError == <<"write failed">>
SaveStates == {"save_prompt", "save_result", "save_history", "save_metadata"}

AssistantTurns == {i \in 1..Len(messages) : messages[i].role = "assistant"}
ReplyTurns == {i \in 2..Len(messages) : messages[i].role = "user"}
RequestsTools(i) == Len(ToolUseBlocksOf(messages[i].content)) > 0
TextsOf(content) ==
    LET textBlocks == SelectSeq(content, LAMBDA b : b.type = "text")
    IN  [i \in 1..Len(textBlocks) |-> textBlocks[i].text]

\* the last response had no tool_use block: the loop was left at line 298
FinalAnswered ==
    /\ Len(messages) > 1
    /\ messages[Len(messages)].role = "assistant"
    /\ ~RequestsTools(Len(messages))

\* C1: a run in which every model call is answered and every answer requests
\* a tool ends after exactly MaxIterations model calls with the error
\* 'Planning exceeded maximum iterations'; no run issues more than
\* MaxIterations model calls.
C1_CeilingExact ==
    /\ modelCalls <= MaxIterations
    /\ (/\ pc \in {"returned", "failed"}
        /\ error # ModelCallError
        /\ \A i \in AssistantTurns : RequestsTools(i))
       => (/\ pc = "failed"
           /\ error = ExceededError
           /\ modelCalls = MaxIterations
           /\ Cardinality(AssistantTurns) = MaxIterations)
    /\ error = ExceededError => modelCalls = MaxIterations

C1_Witness ==
    /\ pc = "failed" /\ error = ExceededError
    /\ \A i \in AssistantTurns : RequestsTools(i)

\* C2 as stated: once the k-th response is the first without a tool_use
\* block, the run ends in success after k model calls and k-1 tool rounds and
\* the raw result is the plain concatenation of that response's text blocks.
C2_AsStated ==
    FinalAnswered
    => (/\ pc # "failed"
        /\ modelCalls = Cardinality(AssistantTurns)
        /\ toolRounds = modelCalls - 1
        /\ planningResult = Flatten(TextsOf(messages[Len(messages)].content)))

\* C2 amended: once the k-th response (k <= MaxIterations) is the first
\* without a tool_use block, the loop is left after exactly k model calls and
\* k-1 tool rounds, no further model call or tool round follows, the raw
\* result is that response's text blocks in order joined by one newline
\* between adjacent blocks, and generatePlan returns unless a write of the
\* persistence step fails.
C2_FinalAnswerEndsLoop ==
    FinalAnswered
    => (/\ pc \in SaveStates \cup {"returned", "failed"}
        /\ modelCalls = Cardinality(AssistantTurns)
        /\ modelCalls <= MaxIterations
        /\ toolRounds = modelCalls - 1
        /\ Cardinality(ReplyTurns) = toolRounds
        /\ \A i \in AssistantTurns : i < Len(messages) => RequestsTools(i)
        /\ planningResult = Join(TextsOf(messages[Len(messages)].content), <<NL>>)
        /\ (pc = "failed" => error = WriteError))

C2_Witness ==
    /\ FinalAnswered /\ pc = "returned"
    /\ modelCalls > 2
    /\ Len(TextsOf(messages[Len(messages)].content)) > 1

\* the _executeTool call that served the tool_use block with this id
DispatchesOf(id) == {k \in 1..Len(dispatchLog) : dispatchLog[k].id = id}
LogOf(id) == dispatchLog[CHOOSE k \in DispatchesOf(id) : TRUE]
ConnectorThrew(e) == e.name \in ToolNames /\ e.outcome.kind = "throw"
ErrorValue(msg, e) == [error |-> msg, tool |-> e.name, parameters |-> e.input]

\* C5: every _executeTool call returns a value and none raises: a registered
\* tool whose connector throws yields the structured error value carrying
\* the connector's message, an unregistered name yields the 'Unknown tool'
\* error value, and generatePlan never fails with an error of a tool call.
C5_DispatchAlwaysReturns ==
    /\ \A k \in 1..Len(dispatchLog) :
          LET e == dispatchLog[k]
          IN  /\ e.completion.kind = "return"
              /\ e.name \notin ToolNames =>
                    e.completion.value = ErrorValue(<<"Unknown tool: ", e.name>>, e)
              /\ ConnectorThrew(e) =>
                    e.completion.value = ErrorValue(e.outcome.message, e)
              /\ (e.name \in ToolNames /\ e.outcome.kind = "return") =>
                    "error" \notin DOMAIN e.completion.value
    /\ pc = "failed" => error \in {ExceededError, ModelCallError, WriteError}

C5_Witness ==
    /\ \E k \in 1..Len(dispatchLog) : dispatchLog[k].name \notin ToolNames
    /\ \E k \in 1..Len(dispatchLog) : ConnectorThrew(dispatchLog[k])
    /\ pc = "loop"

\* the reply turn i reports a connector failure
ReportsFailure(i) ==
    \E j \in 1..Len(messages[i].content) :
        /\ DispatchesOf(messages[i].content[j].tool_use_id) # {}
        /\ ConnectorThrew(LogOf(messages[i].content[j].tool_use_id))

\* every requested call is dispatched at most once, and exactly once when its
\* round is complete
DispatchedOnce ==
    \A i \in AssistantTurns :
        LET blocks == ToolUseBlocksOf(messages[i].content)
        IN  \A j \in 1..Len(blocks) :
                /\ Cardinality(DispatchesOf(blocks[j].id)) <= 1
                /\ i < Len(messages) => Cardinality(DispatchesOf(blocks[j].id)) = 1

\* a connector failure of a completed round is in that round's reply turn,
\* as the result of the call that failed
FailuresReported ==
    \A i \in AssistantTurns :
        LET blocks == ToolUseBlocksOf(messages[i].content)
        IN  \A j \in 1..Len(blocks) :
                (/\ i < Len(messages)
                 /\ DispatchesOf(blocks[j].id) # {}
                 /\ ConnectorThrew(LogOf(blocks[j].id)))
                => \E h \in 1..Len(messages[i + 1].content) :
                      /\ messages[i + 1].content[h].tool_use_id = blocks[j].id
                      /\ messages[i + 1].content[h].content =
                            JSONStringify(ErrorValue(LogOf(blocks[j].id).outcome.message,
                                                     LogOf(blocks[j].id)))

NotAbortedByFailure == pc = "failed" => error # ConnectorError

\* C6 as stated: after a connector failure the run is not aborted, the
\* failure is in the reply turn as that call's result, the next model call
\* is issued, and every requested call is dispatched exactly once.
C6_AsStated ==
    /\ DispatchedOnce /\ FailuresReported /\ NotAbortedByFailure
    /\ (pc = "loop" /\ Len(messages) > 1 /\ ReportsFailure(Len(messages)))
       => LoopCondition

\* C6 amended: as stated, except that the next model call is issued only
\* when the failure was not in the tenth tool round; after the tenth round
\* the run ends with the iteration-exceeded error, as after any tenth round.
C6_FailureGoesBackToModel ==
    /\ DispatchedOnce /\ FailuresReported /\ NotAbortedByFailure
    /\ (pc = "loop" /\ Len(messages) > 1 /\ ReportsFailure(Len(messages)))
       => (LoopCondition <=> toolRounds < MaxIterations)
    /\ (pc = "failed" /\ Len(messages) > 1 /\ messages[Len(messages)].role = "user"
        /\ ReportsFailure(Len(messages)))
       => (error = ModelCallError \/ (error = ExceededError /\ toolRounds = MaxIterations))

\* a failure was reported and the model was called again and answered
C6_Witness ==
    \E i \in ReplyTurns : ReportsFailure(i) /\ i < Len(messages)

\* C7: each tool result of a reply turn carries the id of a tool_use block of
\* the assistant turn immediately before it, and of no earlier turn.
C7_ResultsAnswerPrecedingTurn ==
    \A i \in ReplyTurns :
        /\ messages[i - 1].role = "assistant"
        /\ \A j \in 1..Len(messages[i].content) :
              LET id == messages[i].content[j].tool_use_id
                  IdsOf(h) == {ToolUseBlocksOf(messages[h].content)[n].id :
                                  n \in 1..Len(ToolUseBlocksOf(messages[h].content))}
              IN  /\ id \in IdsOf(i - 1)
                  /\ \A h \in AssistantTurns : h < i - 1 => id \notin IdsOf(h)

C7_Witness ==
    \E i \in ReplyTurns : i > 3 /\ Len(messages[i].content) > 1

\* C8: a reply turn holds exactly one result per tool_use block of the
\* preceding assistant turn, the i-th result for the i-th block, each the
\* serialised value of the one _executeTool call made for that block, and is
\* followed by an assistant turn, not by a second reply.
C8_ResultsInRequestOrder ==
    \A i \in ReplyTurns :
        LET blocks == ToolUseBlocksOf(messages[i - 1].content)
            reply == messages[i].content
        IN  /\ Len(reply) = Len(blocks)
            /\ \A j \in 1..Len(blocks) :
                  /\ j <= Len(reply)
                  /\ reply[j].type = "tool_result"
                  /\ reply[j].tool_use_id = blocks[j].id
                  /\ Cardinality(DispatchesOf(blocks[j].id)) = 1
                  /\ reply[j].content = JSONStringify(LogOf(blocks[j].id).completion.value)
            /\ i < Len(messages) => messages[i + 1].role = "assistant"

\* a reply to two calls of which the first failed and the second did not
C8_Witness ==
    \E i \in ReplyTurns :
        /\ Len(messages[i].content) = 2
        /\ "error" \in DOMAIN JSONParse(messages[i].content[1].content)
        /\ "error" \notin DOMAIN JSONParse(messages[i].content[2].content)

\* C9: the transcript only grows by appending one turn at a time; each model
\* call is sent the whole transcript, of which the list sent at the previous
\* call is a strict prefix; the history file written by the run parses to the
\* transcript in memory.
C9_Invariant ==
    /\ IsPrefix(lastSent, messages)
    /\ (pc \in {"save_metadata", "returned"} \/ clock \in DOMAIN disk.histories)
       => (/\ clock \in DOMAIN disk.histories
           /\ JSONParse(disk.histories[clock]) = messages)

C9_Step ==
    /\ IsPrefix(messages, messages')
    /\ Len(messages') <= Len(messages) + 1
    /\ modelCalls' # modelCalls
       => (/\ lastSent' = messages
           /\ modelCalls > 0 => IsStrictPrefix(lastSent, lastSent'))

C9_TranscriptAppendOnly == [](mode = "plan" => C9_Invariant) /\ [][C9_Step]_vars

C9_Witness ==
    /\ pc = "returned" /\ Len(messages) > 4
    /\ JSONParse(disk.histories[clock]) = messages

\* the enhanced-prompt file and the metadata record are of the same run:
\* both absent, or the prompt file is the enhanced prompt of the raw result
\* the metadata record references
LatestOfOneRun(d) ==
    IF d.metadata = <<>> THEN d.prompt = <<>>
    ELSE LET ts == JSONParse(d.metadata[1]).timestamp
         IN  /\ d.prompt # <<>>
             /\ ts \in DOMAIN d.results
             /\ d.prompt[1] = EnhancedUserPrompt(d.results[ts])

\* C10: a run that fails leaves the enhanced-prompt file and the metadata
\* record as they were before it, and in every state the two are of the
\* same run.
C10_NoPartialLatest ==
    /\ pc = "failed" => (disk.prompt = disk0.prompt /\ disk.metadata = disk0.metadata)
    /\ LatestOfOneRun(disk)

(***************************************************************************)
(* Properties of constructTree (checked under SpecTree).                   *)
(***************************************************************************)
\* the position of the message carrying this id, 0 when none does
Carrier(msgs, uuid) ==
    IF \E i \in 1..Len(msgs) : msgs[i].uuid = uuid
    THEN CHOOSE i \in 1..Len(msgs) : msgs[i].uuid = uuid
    ELSE 0

RECURSIVE ChainFrom(_, _, _)
\* the messages met walking parent references from message idx, root first,
\* following at most `fuel` references
ChainFrom(msgs, idx, fuel) ==
    IF idx = 0 \/ fuel = 0 THEN <<>>
    ELSE ChainFrom(msgs, Carrier(msgs, msgs[idx].parent_message_uuid), fuel - 1)
         \o <<msgs[idx]>>

\* the parent references met from message idx do not run into a cycle
AcyclicFrom(msgs, idx) ==
    Len(ChainFrom(msgs, idx, Len(msgs) + 1)) <= Len(msgs)

LeafKnown == Carrier(chat_messages, leaf) # 0

\* C3: for an acyclic message set and a leaf id of the set, constructTree
\* returns the whole parent chain of the leaf, oldest first: the root first,
\* the leaf last, as many elements as the chain has messages.
C3_WholePathRootFirst ==
    (/\ mode = "tree" /\ tpc = "returned" /\ LeafKnown
     /\ AcyclicFrom(chat_messages, Carrier(chat_messages, leaf)))
    => LET chain == ChainFrom(chat_messages, Carrier(chat_messages, leaf),
                              Len(chat_messages))
       IN  /\ allMessages = chain
           /\ Len(allMessages) = Len(chain)
           /\ allMessages[Len(allMessages)].uuid = leaf

\* C4: with a leaf id that no message carries, constructTree returns at once,
\* and returns the empty sequence, whatever the message set.
C4_UnknownLeafEmpty ==
    (mode = "tree" /\ ~LeafKnown /\ tpc # "start")
    => (tpc = "returned" /\ allMessages = <<>> /\ steps = 0)

C4_Witness ==
    /\ mode = "tree" /\ tpc = "returned" /\ ~LeafKnown
    /\ Len(chat_messages) > 1
    /\ \E i \in 1..Len(chat_messages) :
          chat_messages[i].parent_message_uuid \notin {NULL, ABSENT}

(***************************************************************************)
(* Planner.loadLatestPlan, and the output directory over several runs.     *)
(***************************************************************************)
MetadataPath == <<"latest-plan-metadata.json">>
NoPlanError == <<"No planning result found. Run npm run plan first.">>
NoPromptError == <<"Enhanced user prompt file not found. Run npm run plan first.">>

\* the file at a path of the output directory: <<>> or <<content>>
FileAt(d, path) ==
    IF path = PromptPath THEN d.prompt
    ELSE IF path = MetadataPath THEN d.metadata
    ELSE IF \E ts \in DOMAIN d.results : path = FullResultPath(ts)
         THEN <<d.results[CHOOSE ts \in DOMAIN d.results : path = FullResultPath(ts)]>>
    ELSE IF \E ts \in DOMAIN d.histories : path = ConversationPath(ts)
         THEN <<d.histories[CHOOSE ts \in DOMAIN d.histories : path = ConversationPath(ts)]>>
    ELSE <<>>

ExistsSync(d, path) == FileAt(d, path) # <<>>

\* every path that names a file of the directory
PathsOn(d) ==
    (IF d.prompt # <<>> THEN {PromptPath} ELSE {})
    \cup (IF d.metadata # <<>> THEN {MetadataPath} ELSE {})
    \cup {FullResultPath(ts) : ts \in DOMAIN d.results}
    \cup {ConversationPath(ts) : ts \in DOMAIN d.histories}

\* the directory after the file at path was removed (by the user, a cleaner)
RemoveFile(d, path) ==
    IF path = PromptPath THEN [d EXCEPT !.prompt = <<>>]
    ELSE IF path = MetadataPath THEN [d EXCEPT !.metadata = <<>>]
    ELSE [d EXCEPT
            !.results = [ts \in {t \in DOMAIN @ : FullResultPath(t) # path} |-> @[ts]],
            !.histories = [ts \in {t \in DOMAIN @ : ConversationPath(t) # path} |-> @[ts]]]

LoadMissingMetadataFabricates ==
    Returned([enhancedUserPrompt |-> <<>>, metadata |-> "undefined"])

\* lines 395-397
LoadMissingMetadata == Raised(NoPlanError)

\* Planner.loadLatestPlan
LoadLatestPlan(d) ==
    IF ~ExistsSync(d, MetadataPath) THEN LoadMissingMetadata
    ELSE LET metadata == JSONParse(FileAt(d, MetadataPath)[1])
         IN  IF ~ExistsSync(d, metadata.promptPath) THEN Raised(NoPromptError)
             ELSE Returned([enhancedUserPrompt |-> FileAt(d, metadata.promptPath)[1],
                            metadata |-> metadata])

Between == {"ready", "returned", "failed"}

\* before the first run: an output directory without files
InitStore ==
    /\ mode = "store"
    /\ pc = "ready"
    /\ messages = <<>> /\ iterations = 0
    /\ toolUseBlocks = <<>> /\ toolIdx = 0 /\ toolResults = <<>>
    /\ planningResult = <<>> /\ error = <<>>
    /\ disk0 = EmptyDisk /\ disk = EmptyDisk /\ clock = 1
    /\ nextId = 0 /\ modelCalls = 0 /\ toolRounds = 0
    /\ lastSent = <<>> /\ dispatchLog = <<>>
    /\ nVaried = 0 /\ roundVaried = FALSE
    /\ TreeIdle /\ StoreIdle /\ ClaudeIdle /\ IMessageIdle /\ FnIdle

storeFrame ==
    <<iterations, toolUseBlocks, toolIdx, toolResults, disk0, nextId, modelCalls,
      toolRounds, lastSent, dispatchLog, nVaried, roundVaried, treeVars,
      claudeVars, imessageVars, fnVars, mode>>

\* a run leaves generatePlan from its loop: a rejected model call (line 271)
\* or line 325; the loop (lines 270-323) writes no file
RunFailsInLoop ==
    /\ mode = "store" /\ pc = "ready"
    /\ \E e \in {ExceededError, ModelCallError} : error' = e
    /\ pc' = "failed"
    /\ loaded' = <<>>
    /\ UNCHANGED <<messages, planningResult, disk, clock, runLog, removals, storeFrame>>

\* a run reaches line 298 with a final answer
RunReachesSave ==
    /\ mode = "store" /\ pc = "ready"
    /\ \E f \in {BasicFinal} \cup VariedFinals :
          /\ messages' = PushAssistant(<<OpeningMessage>>, f)
          /\ planningResult' = PlanningResultOf(f)
    /\ pc' = "save_prompt"
    /\ loaded' = <<>>
    /\ UNCHANGED <<error, disk, clock, runLog, removals, storeFrame>>

\* the next run starts, later than the one before
NextRun ==
    /\ mode = "store" /\ pc \in {"returned", "failed"}
    /\ Len(runLog) + 1 < MaxRuns
    /\ runLog' = Append(runLog, [ts |-> clock, result |-> planningResult,
                                 ended |-> pc, error |-> error])
    /\ clock' = clock + 1
    /\ pc' = "ready"
    /\ messages' = <<>> /\ planningResult' = <<>> /\ error' = <<>>
    /\ loaded' = <<>>
    /\ UNCHANGED <<disk, removals, storeFrame>>

\* a file of the output directory is removed while no run is saving
FileRemoved ==
    /\ mode = "store" /\ pc \in Between
    /\ removals < MaxRemovals
    /\ \E path \in PathsOn(disk) : disk' = RemoveFile(disk, path)
    /\ removals' = removals + 1
    /\ loaded' = <<>>
    /\ UNCHANGED <<pc, messages, planningResult, error, clock, runLog, storeFrame>>

\* a loadLatestPlan call on the output directory
LoadLatest ==
    /\ mode = "store" /\ pc \in Between
    /\ loaded = <<>>
    /\ loaded' = <<LoadLatestPlan(disk)>>
    /\ UNCHANGED <<pc, messages, planningResult, error, disk, clock, runLog,
                   removals, storeFrame>>

NextStore ==
    \/ RunFailsInLoop
    \/ RunReachesSave
    \/ SavePrompt
    \/ SaveFullResult
    \/ SaveConversation
    \/ SaveMetadata
    \/ WriteFails
    \/ NextRun
    \/ FileRemoved
    \/ LoadLatest

SpecStore == InitStore /\ [][NextStore]_vars

(***************************************************************************)
(* Properties of Planner.loadLatestPlan (checked under SpecStore).         *)
(***************************************************************************)
\* the runs so far, the current one included once it has ended
RunsEnded ==
    IF pc \in {"returned", "failed"}
    THEN Append(runLog, [ts |-> clock, result |-> planningResult,
                         ended |-> pc, error |-> error])
    ELSE runLog

CompletedRuns == SelectSeq(RunsEnded, LAMBDA r : r.ended = "returned")
Loaded == loaded # <<>>

\* C11: while no planning run has completed, whatever runs have failed
\* (iteration ceiling, model-call failure, a failed write), every
\* loadLatestPlan call fails with 'No planning result found...' and none
\* returns a result.
C11_LoadBeforeAnyRunFails ==
    (mode = "store" /\ Loaded /\ CompletedRuns = <<>>)
        => loaded[1] = Raised(NoPlanError)

C11_Witness ==
    /\ Loaded /\ loaded[1] = Raised(NoPlanError)
    /\ \E i \in 1..Len(RunsEnded) : RunsEnded[i].error = ExceededError
    /\ \E i \in 1..Len(RunsEnded) : RunsEnded[i].error = ModelCallError

\* the paths the metadata record on the directory refers to
ReferencedPaths(d) ==
    LET metadata == JSONParse(d.metadata[1])
    IN  {metadata.promptPath, metadata.fullResultPath, metadata.conversationPath}

\* C12: whenever a file the metadata record refers to (the prompt file, the
\* timestamped raw result, the timestamped transcript) does not exist, a
\* loadLatestPlan call fails.
C12_MissingReferencedFileFails ==
    (/\ mode = "store" /\ Loaded
     /\ ExistsSync(disk, MetadataPath)
     /\ \E path \in ReferencedPaths(disk) : ~ExistsSync(disk, path))
        => loaded[1].kind = "raise"

\* C13: after runs that all completed, with no file removed, a loadLatestPlan
\* call returns exactly the enhanced prompt and the metadata of the most
\* recent run.
C13_LatestIsLastRunOnly ==
    (/\ mode = "store" /\ Loaded
     /\ removals = 0
     /\ RunsEnded # <<>>
     /\ \A i \in 1..Len(RunsEnded) : RunsEnded[i].ended = "returned")
        => LET last == RunsEnded[Len(RunsEnded)]
           IN  loaded[1] = Returned([enhancedUserPrompt |-> EnhancedUserPrompt(last.result),
                                     metadata |-> Metadata(last.ts)])

C13_Witness ==
    /\ Loaded /\ loaded[1].kind = "return"
    /\ removals = 0
    /\ Len(RunsEnded) = 2
    /\ \A i \in 1..Len(RunsEnded) : RunsEnded[i].ended = "returned"
    /\ RunsEnded[1].result # RunsEnded[2].result
    /\ EnhancedUserPrompt(RunsEnded[1].result) # EnhancedUserPrompt(RunsEnded[2].result)

(***************************************************************************)
(* Dates, and the data the AI-Dialogue sources hold.                       *)
(***************************************************************************)
\* a Date is its day number; NaN is the time value of an Invalid Date and
\* NoDate stands for an argument that is undefined
NaN == 0 - 1
NoDate == 0 - 2

\* new Date(s) for the strings the model uses; anything else, undefined
\* included, gives an Invalid Date
ParseDate(s) ==
    CASE s = "2025-06-01" -> 1
      [] s = "2025-06-08" -> 8
      [] OTHER -> NaN

InRangeExclusive(d, startDate, endDate) ==
    /\ (startDate = NoDate \/ (d # NaN /\ startDate # NaN /\ d > startDate))
    /\ (endDate = NoDate \/ (d # NaN /\ endDate # NaN /\ d < endDate))

\* (!startDate || d >= startDate) && (!endDate || d <= endDate): undefined is
\* falsy, a Date object (an invalid one too) is truthy, and a comparison
\* with NaN is false
InRange(d, startDate, endDate) ==
    /\ (startDate = NoDate \/ (d # NaN /\ startDate # NaN /\ d >= startDate))
    /\ (endDate = NoDate \/ (d # NaN /\ endDate # NaN /\ d <= endDate))

ChatMessage(uuid, parent, text, sender, at) ==
    [uuid |-> uuid, parent_message_uuid |-> parent, text |-> text,
     sender |-> sender, created_at |-> at, updated_at |-> at]

\* what the hosted service holds: one conversation of two messages
RemoteMessages ==
    <<ChatMessage("ra", ABSENT, <<"hi">>, "human", 3),
      ChatMessage("rb", "ra", <<SP, "hello", NL>>, "assistant", 4)>>
RemoteConversation ==
    [uuid |-> "r1", name |-> "Remote", updated_at |-> 4,
     chat_messages |-> RemoteMessages, current_leaf_message_uuid |-> "rb"]
\* the list endpoint answers summaries, without message trees
RemoteConversations == <<[uuid |-> "r1", name |-> "Remote", updated_at |-> 4]>>

\* a local snapshot: one conversation that the service does not hold
SnapshotConversations ==
    <<[uuid |-> "s1", name |-> "Saved", updated_at |-> 2,
       chat_messages |-> <<ChatMessage("sa", ABSENT, <<"old">>, "human", 2)>>,
       current_leaf_message_uuid |-> "sa"]>>

\* new Date() inside _getMockConversations
MockNow == 8

\* ClaudeAIConnector._getMockConversations
MockConversations ==
    <<[uuid |-> "mock-conv-1", name |-> "Mock Conversation 1",
       created_at |-> MockNow, updated_at |-> MockNow,
       chat_messages |->
          <<ChatMessage("msg-1", NULL, <<"Hello Claude">>, "human", MockNow),
            ChatMessage("msg-2", "msg-1", <<"Hello! How can I help you today?">>,
                        "assistant", MockNow)>>,
       current_leaf_message_uuid |-> "msg-2"]>>

(***************************************************************************)
(* constructTree and formatMessages as functions of their argument.        *)
(***************************************************************************)
RECURSIVE ConstructTreeFromLeafFirst(_, _, _, _)
ConstructTreeFromLeafFirst(msgs, idx, acc, fuel) ==
    IF fuel = 0 \/ LoopBreaks(msgs, idx) THEN acc
    ELSE ConstructTreeFromLeafFirst(msgs,
                                    IndexOf(msgs, msgs[idx].parent_message_uuid),
                                    acc \o <<msgs[idx]>>, fuel - 1)

RECURSIVE ConstructTreeFrom(_, _, _, _)
\* the while loop of constructTree; fuel bounds the walk
ConstructTreeFrom(msgs, idx, acc, fuel) ==
    IF fuel = 0 \/ LoopBreaks(msgs, idx) THEN acc
    ELSE ConstructTreeFrom(msgs, IndexOf(msgs, msgs[idx].parent_message_uuid),
                           <<msgs[idx]>> \o acc, fuel - 1)

ConstructTree(fullData) ==
    ConstructTreeFrom(fullData.chat_messages,
                      IndexOf(fullData.chat_messages, fullData.current_leaf_message_uuid),
                      <<>>, Len(fullData.chat_messages) + 1)

\* one element of formatMessages
FormatMessage(msg) ==
    LET text ==
          IF "text" \in DOMAIN msg /\ msg.text # <<>> THEN Trim(msg.text)
          ELSE Trim((IF "attachments" \in DOMAIN msg
                     THEN Join([i \in 1..Len(msg.attachments) |->
                                   msg.attachments[i].extracted_content], <<NL, NL>>)
                     ELSE <<>>)
                    \o (IF "content" \in DOMAIN msg
                        THEN LET texts == SelectSeq(msg.content, LAMBDA c : c.type = "text")
                             IN  Join([i \in 1..Len(texts) |-> texts[i].text], <<NL, NL>>)
                        ELSE <<>>))
    IN  [role |-> msg.sender, text |-> text, created_at |-> msg.created_at,
         updated_at |-> msg.updated_at, uuid |-> msg.uuid]

FormatMessages(treedMessages) ==
    [i \in 1..Len(treedMessages) |-> FormatMessage(treedMessages[i])]

(***************************************************************************)
(* ClaudeAIConnector, reached through _executeTool.                        *)
(***************************************************************************)
\* new Date(parameters.start_date): the list tools parse whatever they get
ListArgDate(parameters, key) == ParseDate(Get(parameters, key))

\* parameters.start_date ? new Date(parameters.start_date) : undefined
MessagesArgDate(parameters, key) ==
    IF Get(parameters, key) \in {"undefined", ""} THEN NoDate
    ELSE ParseDate(Get(parameters, key))

\* .filter(date range).map(standard message shape)
StandardMessages(formatted, startDate, endDate) ==
    LET kept == SelectSeq(formatted, LAMBDA m : InRange(m.created_at, startDate, endDate))
    IN  [i \in 1..Len(kept) |->
            [id |-> kept[i].uuid, text |-> kept[i].text,
             sender |-> IF kept[i].role = "human" THEN "human" ELSE "assistant",
             timestamp |-> kept[i].created_at,
             isFromMe |-> kept[i].role = "human"]]

\* getConversations after _fetchConversations: filter, map
ConversationSummaries(conversations, startDate, endDate) ==
    LET filtered == SelectSeq(conversations,
                              LAMBDA c : InRange(c.updated_at, startDate, endDate))
    IN  [i \in 1..Len(filtered) |->
            [id |-> filtered[i].uuid, name |-> filtered[i].name,
             participants |-> <<"human", "assistant">>,
             lastMessageDate |-> filtered[i].updated_at,
             messageCount |-> IF "chat_messages" \in DOMAIN filtered[i]
                              THEN Len(filtered[i].chat_messages) ELSE 0]]

\* getConversationMessages after _fetchConversations: find, tree, filter, map
MessagesFromList(conversations, conversationId, startDate, endDate) ==
    LET hits == {i \in 1..Len(conversations) : conversations[i].uuid = conversationId}
    IN  IF hits = {} THEN <<>>
        ELSE LET conversation == conversations[CHOOSE i \in hits : \A j \in hits : i <= j]
             IN  IF "chat_messages" \notin DOMAIN conversation THEN <<>>
                 ELSE StandardMessages(FormatMessages(ConstructTree(conversation)),
                                       startDate, endDate)

\* the text of a file that JSON.parse rejects
Unparseable == [text |-> "{\"uuid\": "]
JSONParses(t) == "json" \in DOMAIN t

\* how a request through PuppeteerClient can fail: page.goto rejects, or the
\* response is not ok; each makes client.get throw
FetchFailures == {"network", "http401", "http403", "http404"}
FetchError(outcome) == <<"Puppeteer request failed: ", outcome>>
ParseError == <<"SyntaxError: Unexpected end of JSON input">>

LocalSourceMockFirst(file) == "mock"

\* lines 116-125: the local file when it exists, the mock data otherwise
LocalSource(file) == IF file # <<>> THEN "snapshot" ELSE "mock"

ClaudeToolCalls ==
    {ToolUse("claude_ai_get_conversations", DateRange),
     ToolUse("claude_ai_get_conversations",
             [start_date |-> "not-a-date", end_date |-> "2025-06-08"]),
     ToolUse("claude_ai_get_conversation_messages", DateRange),
     ToolUse("claude_ai_get_conversation_messages",
             [conversation_id |-> "r1"] @@ DateRange)}
    \cup {ToolUse("claude_ai_get_conversation_messages", [conversation_id |-> id]) :
            id \in {"r1", "s1", "mock-conv-1", "nope", ""}}

IsMessagesTool == toolCall.name = "claude_ai_get_conversation_messages"
StartDate ==
    IF IsMessagesTool THEN MessagesArgDate(toolCall.input, "start_date")
    ELSE ListArgDate(toolCall.input, "start_date")
EndDate ==
    IF IsMessagesTool THEN MessagesArgDate(toolCall.input, "end_date")
    ELSE ListArgDate(toolCall.input, "end_date")

\* _executeTool has just called the connector operation of a claude_ai_* tool
InitClaude ==
    /\ mode = "claude"
    /\ cpc = "start"
    /\ useAuthentication \in BOOLEAN
    /\ dataFile \in {<<>>, <<JSONStringify(SnapshotConversations)>>, <<Unparseable>>}
    /\ toolCall \in ClaudeToolCalls
    /\ fetches = <<>> /\ source = "none" /\ allConversations = <<>>
    /\ opResult = <<>> /\ toolResult = <<>>
    /\ PlanIdle /\ TreeIdle /\ StoreIdle /\ IMessageIdle /\ FnIdle

claudeFrame == <<useAuthentication, dataFile, toolCall, planVars, treeVars,
                 storeVars, imessageVars, fnVars, mode>>

\* getConversationMessages lines 248-276: the conversation is fetched
FetchConversation(outcome) ==
    /\ mode = "claude" /\ cpc = "start" /\ IsMessagesTool /\ useAuthentication
    /\ fetches' = Append(fetches, outcome)
    /\ IF outcome = "ok"
       THEN /\ opResult' = <<Returned(StandardMessages(
                                FormatMessages(ConstructTree(RemoteConversation)),
                                StartDate, EndDate))>>
            /\ source' = "remote"
            /\ cpc' = "op_done"
       ELSE /\ cpc' = "list"
            /\ UNCHANGED <<opResult, source>>
    /\ UNCHANGED <<allConversations, toolResult, claudeFrame>>

ConversationFetched ==
    /\ toolCall # <<>> /\ Get(toolCall.input, "conversation_id") = RemoteConversation.uuid
    /\ FetchConversation("ok")

ConversationFetchFails == \E o \in FetchFailures : FetchConversation(o)

InFetchConversations ==
    \/ cpc = "list"
    \/ cpc = "start" /\ (~IsMessagesTool \/ ~useAuthentication)

\* _fetchConversations lines 104-114: the list is fetched
FetchList(outcome) ==
    /\ mode = "claude" /\ InFetchConversations /\ useAuthentication
    /\ fetches' = Append(fetches, outcome)
    /\ IF outcome = "ok"
       THEN /\ allConversations' = RemoteConversations
            /\ source' = "remote"
            /\ cpc' = "have_list"
       ELSE /\ cpc' = "local"
            /\ UNCHANGED <<allConversations, source>>
    /\ UNCHANGED <<opResult, toolResult, claudeFrame>>

ListFetched == FetchList("ok")
ListFetchFails == \E o \in FetchFailures : FetchList(o)

\* _fetchConversations lines 116-125: local file, else mock data
ReadLocalSources ==
    /\ mode = "claude"
    /\ cpc = "local" \/ (InFetchConversations /\ ~useAuthentication)
    /\ source' = LocalSource(dataFile)
    /\ IF LocalSource(dataFile) = "mock"
       THEN /\ allConversations' = MockConversations
            /\ cpc' = "have_list"
            /\ UNCHANGED opResult
       ELSE IF JSONParses(dataFile[1])
       THEN /\ allConversations' = JSONParse(dataFile[1])
            /\ cpc' = "have_list"
            /\ UNCHANGED opResult
       ELSE /\ opResult' = <<Raised(ParseError)>>
            /\ cpc' = "op_done"
            /\ UNCHANGED allConversations
    /\ UNCHANGED <<fetches, toolResult, claudeFrame>>

\* the operation returns what it makes of the conversations it got
OperationReturns ==
    /\ mode = "claude" /\ cpc = "have_list"
    /\ opResult' =
          <<Returned(IF IsMessagesTool
                     THEN MessagesFromList(allConversations,
                                           Get(toolCall.input, "conversation_id"),
                                           StartDate, EndDate)
                     ELSE ConversationSummaries(allConversations, StartDate, EndDate))>>
    /\ cpc' = "op_done"
    /\ UNCHANGED <<fetches, source, allConversations, toolResult, claudeFrame>>

\* _executeTool resumes after the await and returns
ToolCompletes ==
    /\ mode = "claude" /\ cpc = "op_done"
    /\ toolResult' =
          <<ExecuteTool(toolCall.name, toolCall.input,
                        IF opResult[1].kind = "return"
                        THEN ConnectorReturn(opResult[1].value)
                        ELSE ConnectorThrow(opResult[1].message))>>
    /\ cpc' = "done"
    /\ UNCHANGED <<fetches, source, allConversations, opResult, claudeFrame>>

NextClaude ==
    \/ ConversationFetched
    \/ ConversationFetchFails
    \/ ListFetched
    \/ ListFetchFails
    \/ ReadLocalSources
    \/ OperationReturns
    \/ ToolCompletes

SpecClaude == InitClaude /\ [][NextClaude]_vars

(***************************************************************************)
(* Properties of a claude_ai_* tool call (checked under SpecClaude).       *)
(***************************************************************************)
ToolDone == toolResult # <<>>
OperationDone == opResult # <<>>
IsErrorResult(completion) ==
    completion.kind = "return" /\ "error" \in DOMAIN completion.value
ConnectorInvoked == fetches # <<>> \/ source # "none" \/ OperationDone
SomeFetchFailed == \E i \in 1..Len(fetches) : fetches[i] # "ok"
LastFetchOk == fetches # <<>> /\ fetches[Len(fetches)] = "ok"

\* the arguments of the call being served fail the validation the
\* specification asks for: an unparseable date, or no conversation id
MalformedCall ==
    IF IsMessagesTool
    THEN \/ Get(toolCall.input, "conversation_id") \in {"undefined", ""}
         \/ StartDate = NaN \/ EndDate = NaN
    ELSE StartDate = NaN \/ EndDate = NaN

\* C15: a tool call with an unparseable start_date or end_date, or with an
\* empty or missing conversation_id, ends in an error result and the
\* connector operation is not invoked for it.
C15_MalformedCallRejected ==
    (mode = "claude" /\ MalformedCall)
        => (~ConnectorInvoked /\ (ToolDone => IsErrorResult(toolResult[1])))

\* C16: when the remote fetches of a tool call all throw a network error, the
\* tool result handed back to the model is an error result.
C16_NetworkErrorGivesErrorResult ==
    (/\ mode = "claude" /\ ToolDone
     /\ fetches # <<>>
     /\ \A i \in 1..Len(fetches) : fetches[i] = "network")
        => IsErrorResult(toolResult[1])

\* C17: when the service answers the fetches of an operation with 401 or 403,
\* the operation ends with an error and does not return conversation data.
C17_AuthFailureGivesReauthError ==
    (/\ mode = "claude" /\ OperationDone
     /\ fetches # <<>>
     /\ \A i \in 1..Len(fetches) : fetches[i] \in {"http401", "http403"})
        => opResult[1].kind = "raise"

\* the source the order of the claim prescribes
PrescribedSource ==
    IF LastFetchOk THEN "remote"
    ELSE IF dataFile # <<>> THEN "snapshot" ELSE "mock"

SourceOrder ==
    /\ cpc \in {"have_list", "op_done", "done"} => source # "none"
    /\ source # "none" => source = PrescribedSource
    /\ source \in {"snapshot", "mock"} => (~useAuthentication \/ SomeFetchFailed)

TimestampLine(at) == [kind |-> "timestamp", at |-> at]
SenderLine(who) == [kind |-> "sender", who |-> who]
TextLine(text) == [kind |-> "text", text |-> text]
PathLine == [kind |-> "path", text |-> <<"/Users/me/Library/Messages/Attachments/1.jpg">>]

\* the files the export utility writes: one per conversation, and a
\* directory entry that is not a .txt file
ExportedFiles == {<<"+1555", ".txt">>, <<"+1666", ".txt">>, <<"attachments">>}

\* the non-blank lines of an exported file
LinesOf(file) ==
    IF file = <<"+1555", ".txt">>
    THEN <<TimestampLine(3), SenderLine("Me"), TextLine(<<"on my way">>),
           TextLine(<<SP, "see you", SP>>), PathLine,
           TimestampLine(5), SenderLine("+1555"), TextLine(<<"ok">>)>>
    ELSE IF file = <<"+1666", ".txt">>
    THEN <<TimestampLine(4), SenderLine("+1666"), TextLine(<<"call me">>)>>
    ELSE <<>>

RECURSIVE ParseLinesTimestampOnly(_, _, _, _, _)
ParseLinesTimestampOnly(file, lines, currentSender, currentTimestamp, msgs) ==
    IF lines = <<>> THEN msgs
    ELSE LET line == Head(lines)
         IN  IF line.kind = "timestamp"
             THEN ParseLinesTimestampOnly(file, Tail(lines), currentSender, line.at, msgs)
             ELSE IF line.kind = "sender"
             THEN ParseLinesTimestampOnly(file, Tail(lines), line.who,
                                          currentTimestamp, msgs)
             ELSE IF currentTimestamp # NoDate /\ line.kind = "text"
             THEN ParseLinesTimestampOnly(file, Tail(lines), currentSender,
                             currentTimestamp,
                             Append(msgs, [id |-> <<file, "-", Len(msgs)>>,
                                           text |-> Trim(line.text),
                                           sender |-> currentSender,
                                           timestamp |-> currentTimestamp,
                                           isFromMe |-> currentSender = "Me"]))
             ELSE ParseLinesTimestampOnly(file, Tail(lines), currentSender,
                                          currentTimestamp, msgs)

RECURSIVE ParseLinesOnePerHeader(_, _, _, _, _)
ParseLinesOnePerHeader(file, lines, currentSender, currentTimestamp, msgs) ==
    IF lines = <<>> THEN msgs
    ELSE LET line == Head(lines)
         IN  IF line.kind = "timestamp"
             THEN ParseLinesOnePerHeader(file, Tail(lines), currentSender, line.at, msgs)
             ELSE IF line.kind = "sender"
             THEN ParseLinesOnePerHeader(file, Tail(lines), line.who,
                                         currentTimestamp, msgs)
             ELSE IF currentTimestamp # NoDate /\ currentSender # NULL
                     /\ line.kind = "text"
             THEN ParseLinesOnePerHeader(file, Tail(lines), NULL, currentTimestamp,
                             Append(msgs, [id |-> <<file, "-", Len(msgs)>>,
                                           text |-> Trim(line.text),
                                           sender |-> currentSender,
                                           timestamp |-> currentTimestamp,
                                           isFromMe |-> currentSender = "Me"]))
             ELSE ParseLinesOnePerHeader(file, Tail(lines), currentSender,
                                         currentTimestamp, msgs)

RECURSIVE ParseLines(_, _, _, _, _)
\* lines 94-126: the loop over the lines of one file
ParseLines(file, lines, currentSender, currentTimestamp, msgs) ==
    IF lines = <<>> THEN msgs
    ELSE LET line == Head(lines)
         IN  IF line.kind = "timestamp"
             THEN ParseLines(file, Tail(lines), currentSender, line.at, msgs)
             ELSE IF line.kind = "sender"
             THEN ParseLines(file, Tail(lines), line.who, currentTimestamp, msgs)
             ELSE IF currentTimestamp # NoDate /\ currentSender # NULL
                     /\ line.kind = "text"
             THEN ParseLines(file, Tail(lines), currentSender, currentTimestamp,
                             Append(msgs, [id |-> <<file, "-", Len(msgs)>>,
                                           text |-> Trim(line.text),
                                           sender |-> currentSender,
                                           timestamp |-> currentTimestamp,
                                           isFromMe |-> currentSender = "Me"]))
             ELSE ParseLines(file, Tail(lines), currentSender, currentTimestamp, msgs)

\* lines 79-136: the conversation of one .txt file with these non-blank
\* lines, <<>> when it has no message; sender and timestamp start unset
ParseFileLines(file, lines) ==
    LET parsed == ParseLines(file, lines, NULL, NoDate, <<>>)
    IN  IF parsed = <<>> THEN <<>>
        ELSE <<[id |-> file[1], participants |-> <<file[1]>>,
                lastMessageDate |-> parsed[Len(parsed)].timestamp,
                messageCount |-> Len(parsed), messages |-> parsed]>>

ParseFile(file) == ParseFileLines(file, LinesOf(file))

\* the last sender line of these lines, or the sender before them
SenderAfter(lines, currentSender) ==
    LET at == {i \in 1..Len(lines) : lines[i].kind = "sender"}
    IN  IF at = {} THEN currentSender
        ELSE lines[CHOOSE i \in at : \A j \in at : j <= i].who

\* the last timestamp line of these lines, or the timestamp before them
TimestampAfter(lines, currentTimestamp) ==
    LET at == {i \in 1..Len(lines) : lines[i].kind = "timestamp"}
    IN  IF at = {} THEN currentTimestamp
        ELSE lines[CHOOSE i \in at : \A j \in at : j <= i].at

RECURSIVE ParseEntriesFrom(_, _, _)
\* a loop over the files whose sender and timestamp were declared outside it
ParseEntriesFrom(entries, currentSender, currentTimestamp) ==
    IF entries = <<>> THEN <<>>
    ELSE LET e == Head(entries)
             parsed == ParseLines(e.file, e.lines, currentSender,
                                  currentTimestamp, <<>>)
         IN  (IF e.file[Len(e.file)] # ".txt" \/ parsed = <<>> THEN <<>>
              ELSE <<[id |-> e.file[1], participants |-> <<e.file[1]>>,
                      lastMessageDate |-> parsed[Len(parsed)].timestamp,
                      messageCount |-> Len(parsed), messages |-> parsed]>>)
             \o ParseEntriesFrom(Tail(entries),
                                 SenderAfter(e.lines, currentSender),
                                 TimestampAfter(e.lines, currentTimestamp))

ParseEntriesCarrying(entries) == ParseEntriesFrom(entries, NULL, NoDate)

RECURSIVE ParseEntries(_)
\* lines 74-137 on directory entries with these names and non-blank lines:
\* every .txt file is parsed by itself, in directory order
ParseEntries(entries) ==
    IF entries = <<>> THEN <<>>
    ELSE (IF Head(entries).file[Len(Head(entries).file)] = ".txt"
          THEN ParseFileLines(Head(entries).file, Head(entries).lines)
          ELSE <<>>)
         \o ParseEntries(Tail(entries))

\* the order in which readdirSync lists entries
DirectoryOrder == <<<<"+1555", ".txt">>, <<"+1666", ".txt">>, <<"attachments">>>>

\* The temporary directory tree: the directories that exist and the files in
\* them (pairs of directory path and file name).
NoTree == [dirs |-> {}, files |-> {}]
ExistsDir(tree, dir) == dir \in tree.dirs
MkdirSync(tree, dir) == [tree EXCEPT !.dirs = @ \cup {dir}]
RmSync(tree, dir) ==
    [dirs |-> tree.dirs \ {dir}, files |-> {e \in tree.files : e[1] # dir}]
\* the export utility writes its files below its -o directory
WriteExport(tree, dir) ==
    [dirs |-> tree.dirs \cup {dir},
     files |-> tree.files \cup {<<dir, f>> : f \in ExportedFiles}]
ReaddirSync(tree, dir) ==
    SelectSeq(DirectoryOrder, LAMBDA f : <<dir, f>> \in tree.files)

RECURSIVE ParseFiles(_)
\* lines 74-137: the loop over the directory entries
ParseFiles(files) ==
    IF files = <<>> THEN <<>>
    ELSE (IF Head(files)[Len(Head(files))] = ".txt" THEN ParseFile(Head(files)) ELSE <<>>)
         \o ParseFiles(Tail(files))

\* IMessageConnector._parseExportedFiles
ParseExportedFiles(tree, dir) ==
    IF ~ExistsDir(tree, dir) THEN <<>> ELSE ParseFiles(ReaddirSync(tree, dir))

\* getConversations lines 165-170: the metadata without the messages
ConversationMetadata(parsedData) ==
    [i \in 1..Len(parsedData) |->
        [id |-> parsedData[i].id, participants |-> parsedData[i].participants,
         lastMessageDate |-> parsedData[i].lastMessageDate,
         messageCount |-> parsedData[i].messageCount]]

AllMessagesOfNone(parsedData) == <<>>

\* line 203: parsedData.flatMap(conv => conv.messages)
AllMessagesOf(parsedData) ==
    Flatten([i \in 1..Len(parsedData) |-> parsedData[i].messages])

\* getConversationMessages lines 195-203
MessagesOfConversation(parsedData, conversationId) ==
    LET hits == {i \in 1..Len(parsedData) : parsedData[i].id = conversationId}
    IN  IF hits # {}
        THEN parsedData[CHOOSE i \in hits : \A j \in hits : i <= j].messages
        ELSE AllMessagesOf(parsedData)

\* join(tmpdir(), `imessage-export-${Date.now()}`)
TempDirAt(t) == <<"/tmp/imessage-export-", t>>

ExecError == <<"Command failed: imessage-exporter">>
ReadError == <<"EACCES: permission denied">>
MatchError == <<"TypeError: Cannot read properties of undefined (reading 'match')">>

CleanupOnSuccessOnly(failed) == ~failed

\* the finally clauses (lines 171-173, 204-206): _cleanup runs however the
\* try block was left
CleanupRuns(failed) == TRUE

\* _cleanup lines 146-154; removed tells whether rmSync succeeded
Cleanup(tree, dir, removed) ==
    IF ExistsDir(tree, dir) /\ removed THEN RmSync(tree, dir) ELSE tree

\* the calls a client makes
IMessageRequests ==
    {[op |-> "getConversations", conversationId |-> "undefined"]}
    \cup {[op |-> "getConversationMessages", conversationId |-> id] :
            id \in {"+1555", "nope", "undefined"}}

\* new IMessageConnector(): the constructor has fixed the directory path
InitIMessage ==
    /\ mode = "imessage"
    /\ now = 1
    /\ tempDir = TempDirAt(0)
    /\ tmp = NoTree
    /\ calls = <<>>
    /\ PlanIdle /\ TreeIdle /\ StoreIdle /\ ClaudeIdle /\ FnIdle

imessageFrame ==
    <<tempDir, planVars, treeVars, storeVars, claudeVars, fnVars, mode>>

\* the completed form of call c: its completion and whether the directory it
\* used exists when it completes
Completed(c, completion, tree) ==
    [c EXCEPT !.pc = "done", !.completion = <<completion>>,
              !.dirLeft = ExistsDir(tree, c.dir)]

\* the call r starts: lines 183 and 21-50, up to the await of the subprocess
StartCall(r, removed) ==
    /\ LET c == [op |-> r.op, conversationId |-> r.conversationId, pc |-> "exec",
                 dir |-> tempDir, startedAt |-> now, completion |-> <<>>,
                 dirLeft |-> FALSE, removed |-> TRUE]
       IN  IF r.op = "getConversationMessages" /\ r.conversationId = "undefined"
           THEN \* conversationId.match throws inside the try block
                LET after == IF CleanupRuns(TRUE)
                             THEN Cleanup(tmp, tempDir, removed) ELSE tmp
                IN  /\ ExistsDir(tmp, tempDir) \/ removed
                    /\ tmp' = after
                    /\ calls' = Append(calls,
                             [Completed(c, Raised(MatchError), after)
                                 EXCEPT !.removed = removed])
           ELSE /\ removed
                /\ tmp' = IF ExistsDir(tmp, tempDir) THEN tmp
                          ELSE MkdirSync(tmp, tempDir)
                /\ calls' = Append(calls, c)
    /\ now' = now + 1
    /\ UNCHANGED imessageFrame

\* a client calls the connector
CallStarts ==
    /\ mode = "imessage" /\ Len(calls) < MaxCalls
    /\ \E r \in IMessageRequests, removed \in BOOLEAN : StartCall(r, removed)

\* the export subprocess of call i exits, having written its files or not
ExporterExits(i, ok) ==
    /\ mode \in {"imessage", "step"} /\ i \in 1..Len(calls) /\ calls[i].pc = "exec"
    /\ tmp' = IF ok THEN WriteExport(tmp, calls[i].dir) ELSE tmp
    /\ calls' = [calls EXCEPT ![i].pc = IF ok THEN "exported" ELSE "exec_failed"]
    /\ UNCHANGED <<now, imessageFrame>>

ExporterSucceeds == \E i \in 1..Len(calls) : ExporterExits(i, TRUE)
ExporterFails == \E i \in 1..Len(calls) : ExporterExits(i, FALSE)

\* call i resumes after the await and runs to its end: parse, result, finally
CallResumes(i, readable, removed) ==
    /\ mode \in {"imessage", "step"} /\ i \in 1..Len(calls)
    /\ calls[i].pc \in {"exported", "exec_failed"}
    /\ ExistsDir(tmp, tempDir) \/ removed
    /\ LET c == calls[i]
           failed == c.pc = "exec_failed" \/ ~readable
           parsedData == ParseExportedFiles(tmp, tempDir)
           completion ==
              IF c.pc = "exec_failed" THEN Raised(ExecError)
              ELSE IF ~readable THEN Raised(ReadError)
              ELSE IF c.op = "getConversations"
              THEN Returned(ConversationMetadata(parsedData))
              ELSE Returned(MessagesOfConversation(parsedData, c.conversationId))
           after == IF CleanupRuns(failed) THEN Cleanup(tmp, tempDir, removed) ELSE tmp
       IN  /\ (c.pc = "exec_failed" \/ ~ExistsDir(tmp, tempDir)) => readable
           /\ tmp' = after
           /\ calls' = [calls EXCEPT ![i] = [Completed(c, completion, after)
                                                EXCEPT !.removed = removed]]
    /\ UNCHANGED <<now, imessageFrame>>

CallReturns == \E i \in 1..Len(calls), removed \in BOOLEAN : CallResumes(i, TRUE, removed)
CallFailsReading ==
    \E i \in 1..Len(calls), removed \in BOOLEAN : CallResumes(i, FALSE, removed)

NextIMessage ==
    \/ CallStarts
    \/ ExporterSucceeds
    \/ ExporterFails
    \/ CallReturns
    \/ CallFailsReading

SpecIMessage == InitIMessage /\ [][NextIMessage]_vars

(***************************************************************************)
(* Properties of IMessageConnector (checked under SpecIMessage).           *)
(***************************************************************************)
Done(i) == calls[i].pc = "done"
\* the ids of the conversations the source holds
SourceConversationIds == {f[1] : f \in {g \in ExportedFiles : g[Len(g)] = ".txt"}}

\* C14: a getConversationMessages call whose conversation id matches no
\* conversation of the source returns the empty sequence (no message of any
\* other conversation, no error).
C14_UnknownConversationEmpty ==
    mode = "imessage" =>
        \A i \in 1..Len(calls) :
            (/\ Done(i)
             /\ calls[i].op = "getConversationMessages"
             /\ calls[i].conversationId \notin SourceConversationIds \cup {"undefined"}
             /\ calls[i].completion[1].kind = "return")
                => calls[i].completion[1].value = <<>>

RanExporter(i) ==
    ~(calls[i].op = "getConversationMessages" /\ calls[i].conversationId = "undefined")

\* C20: no two calls on the connector, one after the other or overlapping,
\* use the same directory path.
C20_DirectoryPerCall ==
    mode = "imessage" =>
        \A i, j \in 1..Len(calls) :
            (i # j /\ RanExporter(i) /\ RanExporter(j)) => calls[i].dir # calls[j].dir

(***************************************************************************)
(* Progress of a tool execution.  The connector's own steps are taken      *)
(* whenever they can be (a started call runs to its await, a resumed call  *)
(* runs to its end); the export subprocess is outside the program and      *)
(* nothing obliges it to exit.  _executeExporter awaits exec(command) with *)
(* no timeout option and no timer, so the program has no step that ends a  *)
(* call whose subprocess is still running.                                 *)
(***************************************************************************)
SpecIMessageLive ==
    /\ InitIMessage /\ [][NextIMessage]_vars
    /\ WF_vars(CallStarts)
    /\ WF_vars(CallReturns \/ CallFailsReading)

\* call i is awaiting its export subprocess
AwaitingExporter(i) == i \in DOMAIN calls /\ calls[i].pc = "exec"

\* C21: every tool execution eventually completes: a call that is awaiting
\* the export subprocess is eventually ended (by the subprocess's exit or by
\* a timeout) with a result or an error, and never stays pending forever
C21_EveryToolExecutionCompletes ==
    \A i \in 1..MaxCalls :
        [](AwaitingExporter(i) => <>(i \in DOMAIN calls /\ Done(i)))

(***************************************************************************)
(* Further properties of generatePlan (checked under Spec).                *)
(***************************************************************************)
\* the model's first response had no tool_use block
FirstResponseFinal ==
    /\ mode = "plan" /\ Len(messages) >= 2
    /\ messages[2].role = "assistant" /\ ~RequestsTools(2)

\* C22 as stated: when the first response has no tool_use block the run
\* ends in success without executing a tool and the transcript has length 1.
C22_AsStated ==
    FirstResponseFinal
    => (/\ pc \in SaveStates \cup {"returned"}
        /\ dispatchLog = <<>> /\ toolRounds = 0
        /\ Len(messages) = 1)

\* C22 amended: when the first response has no tool_use block the loop is
\* left at once: one model call, no tool executed, and the transcript holds
\* exactly two turns, the opening user turn and that response; the run
\* returns unless a write of the persistence step fails, and the transcript
\* it persisted is those two turns.
C22_FirstResponseFinal ==
    FirstResponseFinal
    => (/\ pc \in SaveStates \cup {"returned", "failed"}
        /\ modelCalls = 1
        /\ dispatchLog = <<>> /\ toolRounds = 0
        /\ Len(messages) = 2
        /\ messages[1] = OpeningMessage
        /\ (pc = "failed" => error = WriteError)
        /\ (pc = "returned" => Len(JSONParse(disk.histories[clock])) = 2))

C22_Witness ==
    FirstResponseFinal /\ pc = "returned" /\ dispatchLog = <<>>

\* the run ended by an orchestrator-level failure: the iteration budget was
\* used up or a model call failed
OrchestratorFailure ==
    mode = "plan" /\ pc = "failed" /\ error \in {ExceededError, ModelCallError}

\* C23: a run that ends by iteration-budget exhaustion or by a failed model
\* call fails with that one error and has written no file: every artifact
\* file, the enhanced-prompt file and the metadata record among them, is as
\* it was before the run, and loading 'latest' gives what it gave before;
\* no file is written before the loop has been left with a final answer.
C23_OrchestratorFailureWritesNothing ==
    /\ OrchestratorFailure
       => (/\ disk = disk0
           /\ disk.prompt = disk0.prompt /\ disk.metadata = disk0.metadata
           /\ LoadLatestPlan(disk) = LoadLatestPlan(disk0)
           /\ planningResult = <<>>)
    /\ (mode = "plan" /\ pc \in {"loop", "exec"}) => disk = disk0

C23_Witness ==
    /\ OrchestratorFailure /\ error = ExceededError
    /\ disk0 = EarlierDisk
    /\ LoadLatestPlan(disk).kind = "return"

(***************************************************************************)
(* SpecFn: the pure functions.  The initial state holds a function name    *)
(* and an argument for it; the one step applies the function.              *)
(***************************************************************************)
\* longest raw planning result, in tokens
MaxTokens == 5

\* all sequences over S of length at most n
SeqsUpTo(S, n) == UNION {[1..k -> S] : k \in 0..n}

\* what a raw planning result is made of
ResultTokens == {OPEN, CLOSE, "a", SP, NL}

\* prompts/private/USER.md as a planning template would be written, and as
\* the letter-writing phase (which reads the same file) needs it
UserMdWithPlaceholder == <<"Dear printer,", NL, PH_COLLECTED_INFO, NL, PH_TODAY_DATE>>
UserMdOfWriter ==
    <<"Today is", SP, PH_TODAY_DATE, NL, "Letters so far:", SP,
      "%%PREVIOUS_LETTERS_TALLY%%">>

\* the prompt files a planner can find when it is constructed
PromptFiles ==
    {[planner |-> TRUE, system |-> TRUE, user |-> <<UserMdWithPlaceholder>>],
     [planner |-> TRUE, system |-> TRUE, user |-> <<UserMdOfWriter>>],
     [planner |-> TRUE, system |-> TRUE, user |-> <<>>],
     [planner |-> FALSE, system |-> TRUE, user |-> <<UserMdOfWriter>>]}

EnhanceArgs ==
    {[files |-> f, planningResult |-> r] :
        f \in PromptFiles, r \in SeqsUpTo(ResultTokens, MaxTokens)}

\* longest exported file, in non-blank lines
MaxLines == 5

\* the lines an exported file is made of
ExportLines ==
    {TimestampLine(3), TimestampLine(5), SenderLine("Me"), SenderLine("+1555"),
     TextLine(<<"hi">>), TextLine(<<SP, "yo", SP>>), PathLine}

\* a is an exported file of up to MaxLines non-blank lines
IsParseArg(a) ==
    \E k \in 0..MaxLines :
       \E l \in [1..k -> ExportLines] : a = [file |-> <<"+1555", ".txt">>, lines |-> l]

\* longest file of an export of two files, in non-blank lines
MaxFileLines == 3

\* the lines the two exported files are made of: each file has header lines
\* of its own
FirstFileLines == {TimestampLine(3), SenderLine("Me"), TextLine(<<"hi">>)}
SecondFileLines == {TimestampLine(5), SenderLine("+1666"), TextLine(<<"hi">>)}

\* a is an export of two files of up to MaxFileLines non-blank lines each
IsExportArg(a) ==
    \E k1, k2 \in 0..MaxFileLines :
       \E l1 \in [1..k1 -> FirstFileLines], l2 \in [1..k2 -> SecondFileLines] :
          a = <<[file |-> <<"+1555", ".txt">>, lines |-> l1],
                [file |-> <<"+1666", ".txt">>, lines |-> l2]>>

\* most conversations the source holds
MaxConvs == 2

\* the days a range can start or end on; a conversation was last active on
\* one of them or carries no readable date
Days == 1..3
ConversationLists ==
    UNION {{[i \in 1..n |-> [uuid |-> <<"c", i>>, name |-> "n", updated_at |-> at[i]]] :
              at \in [1..n -> Days \cup {NaN}]} : n \in 0..MaxConvs}

SummariesArgs ==
    {[conversations |-> c, startDate |-> a, endDate |-> b] :
        c \in ConversationLists, a \in Days, b \in Days}

\* the creation times a message can carry
Stamps == {1, 2}

\* the message set m with creation times `at` and the leaf id l
TreeArg(m, at, l) ==
    [chat_messages |->
        [i \in 1..Len(m) |-> [uuid |-> m[i].uuid,
                              parent_message_uuid |-> m[i].parent_message_uuid,
                              created_at |-> at[i]]],
     current_leaf_message_uuid |-> l]

\* a is a message set of up to MaxMsgs messages with any parent references
\* and any creation times, and a leaf id of the set or of no message
IsTreeArg(a) ==
    \E n \in 1..MaxMsgs :
       \E m \in MessageArrays(n), at \in [1..n -> Stamps],
          l \in {Uuids[j] : j \in 1..n} \cup {ABSENT} : a = TreeArg(m, at, l)

\* most messages handed to formatMessages at once
MaxFormat == 2

\* a field of a message: <<>> when the message lacks it, <<value>> otherwise
DirectTexts == {<<>>, <<<<SP, "direct", NL>>>>}
AttachmentLists ==
    {<<>>, <<<<[extracted_content |-> <<"att1">>]>>>>,
     <<<<[extracted_content |-> <<"att1">>],
         [extracted_content |-> <<"att2", NL>>]>>>>}
ContentLists ==
    {<<>>, <<<<[type |-> "text", text |-> <<"body1">>]>>>>,
     <<<<[type |-> "text", text |-> <<"body1">>], [type |-> "tool_use"],
         [type |-> "text", text |-> <<"body2">>]>>>>}
MessageShapes ==
    {[t |-> t, a |-> a, c |-> c] :
        t \in DirectTexts, a \in AttachmentLists, c \in ContentLists}

\* the message of this shape
TreedMessage(uuid, shape) ==
    [uuid |-> uuid, sender |-> "human", created_at |-> 1, updated_at |-> 1]
    @@ (IF shape.t = <<>> THEN [x \in {} |-> x] ELSE [text |-> shape.t[1]])
    @@ (IF shape.a = <<>> THEN [x \in {} |-> x] ELSE [attachments |-> shape.a[1]])
    @@ (IF shape.c = <<>> THEN [x \in {} |-> x] ELSE [content |-> shape.c[1]])

FormatArgs ==
    UNION {{[i \in 1..n |-> TreedMessage(<<"u", i>>, sh[i])] :
              sh \in [1..n -> MessageShapes]} : n \in 0..MaxFormat}

(***************************************************************************)
(* The writing phase: runWriting and LLMAdapter.generateMessage, up to the *)
(* user prompt handed to the model.  An optional value is <<>> when it is  *)
(* undefined or null and <<v>> when it is v; a text is a token sequence,   *)
(* the empty text being <<>>.                                              *)
(***************************************************************************)
\* the methods class Planner defines
PlannerMethods ==
    {"_ensureOutputDir", "_loadPrompts", "_getTools", "_getDefaultPlannerPrompt",
     "_executeTool", "generatePlan", "_savePlanningResult", "loadLatestPlan",
     "_renderTemplate"}

\* this._userPrompt: the USER.md template rendered by the writer
DefaultUserPrompt == <<"Today is", SP, TodayDate>>
\* what a legacy planner that gathers information would hand back
LegacyPlannerPrompt == <<"gathered by the legacy planner">>
NotAFunctionError == <<"this._planner.generateEnhancedPrompt is not a function">>

\* await this._planner.generateEnhancedPrompt()
CallGenerateEnhancedPrompt ==
    IF "generateEnhancedPrompt" \in PlannerMethods
    THEN Returned([prompt |-> LegacyPlannerPrompt]) ELSE Raised(NotAFunctionError)

\* options.customUserPrompt || null: undefined and the empty text are falsy
OrNull(option) == IF option = <<>> \/ option[1] = <<>> THEN <<>> ELSE option

\* the userPrompt generateMessage sends, and the branch that chose it
GenerateMessagePrompt(options) ==
    LET customUserPrompt == OrNull(options.customUserPrompt)
    IN  IF customUserPrompt # <<>>
        THEN [from |-> "enhanced", prompt |-> customUserPrompt[1]]
        ELSE IF options.usePlanner
        THEN (IF CallGenerateEnhancedPrompt.kind = "return"
              THEN [from |-> "planner",
                    prompt |-> CallGenerateEnhancedPrompt.value.prompt]
              ELSE [from |-> "default", prompt |-> DefaultUserPrompt])
        ELSE [from |-> "default", prompt |-> DefaultUserPrompt]

\* runWriting up to llm.generateMessage(): planResult is null when
\* Planner.loadLatestPlan() threw
RunWritingPrompt(load) ==
    LET planResult == IF load.kind = "return" THEN <<load.value>> ELSE <<>>
    IN  GenerateMessagePrompt(
            [customUserPrompt |-> IF planResult = <<>> THEN <<>>
                                  ELSE <<planResult[1].enhancedUserPrompt>>,
             usePlanner |-> FALSE])

\* what Planner.loadLatestPlan() can complete with
LoadCompletions ==
    {Raised(NoPlanError), Raised(NoPromptError)}
    \cup {Returned([enhancedUserPrompt |-> e, metadata |-> Metadata(1)]) :
            e \in {<<>>, <<"a">>, <<"Dear printer,", NL, "a">>}}

\* the options an LLMAdapter can be constructed with
AdapterOptions ==
    {[customUserPrompt |-> c, usePlanner |-> u] :
        c \in {<<>>, <<<<>>>>, <<<<"a">>>>}, u \in BOOLEAN}

InitFn ==
    /\ mode = "fn"
    /\ \/ fn = "enhancedUserPrompt" /\ arg \in EnhanceArgs
       \/ fn = "parseLines" /\ IsParseArg(arg)
       \/ fn = "summarize" /\ IsParseArg(arg)
       \/ fn = "getConversations" /\ arg \in SummariesArgs
       \/ fn = "constructTree" /\ IsTreeArg(arg)
       \/ fn = "formatMessages" /\ arg \in FormatArgs
       \/ fn = "runWriting" /\ arg \in LoadCompletions
       \/ fn = "generateMessage" /\ arg \in AdapterOptions
       \/ fn = "parseExport" /\ IsExportArg(arg)
    /\ out = <<>>
    /\ PlanIdle /\ TreeIdle /\ StoreIdle /\ ClaudeIdle /\ IMessageIdle

\* the call of function f returns value
Apply(f, value) ==
    /\ mode = "fn" /\ fn = f /\ out = <<>>
    /\ out' = <<value>>
    /\ UNCHANGED <<fn, arg, mode, planVars, treeVars, storeVars, claudeVars,
                   imessageVars>>

\* lines 335-347 on a planner constructed with these prompt files
ComputeEnhancedPrompt ==
    /\ fn = "enhancedUserPrompt"
    /\ Apply("enhancedUserPrompt",
             EnhancedUserPromptFrom(LoadUserPromptTemplate(arg.files),
                                    arg.planningResult))

\* lines 89-126 on the non-blank lines of one exported file
ParseExportedLines ==
    /\ fn = "parseLines"
    /\ Apply("parseLines", ParseLines(arg.file, arg.lines, NULL, NoDate, <<>>))

\* getConversations(startDate, endDate) once _fetchConversations has
\* returned these conversations
FilterConversations ==
    /\ fn = "getConversations"
    /\ Apply("getConversations",
             ConversationSummaries(arg.conversations, arg.startDate, arg.endDate))

\* constructTree(fullData)
Reconstruct ==
    /\ fn = "constructTree"
    /\ Apply("constructTree", ConstructTree(arg))

\* formatMessages(treedMessages)
Format ==
    /\ fn = "formatMessages"
    /\ Apply("formatMessages", FormatMessages(arg))

\* part_001 lines 30-56 once loadLatestPlan has completed as `arg`
RunWriting ==
    /\ fn = "runWriting"
    /\ Apply("runWriting", RunWritingPrompt(arg))

\* generateMessage of an adapter constructed with the options `arg`
GenerateMessage ==
    /\ fn = "generateMessage"
    /\ Apply("generateMessage", GenerateMessagePrompt(arg))

\* getConversations lines 162-170 on a directory holding this one file:
\* what was parsed, and the summaries returned
Summarize ==
    /\ fn = "summarize"
    /\ LET parsedData == ParseFileLines(arg.file, arg.lines)
       IN  Apply("summarize", [parsedData |-> parsedData,
                               summaries |-> ConversationMetadata(parsedData)])

\* lines 74-137 on a directory holding these files
ParseExport ==
    /\ fn = "parseExport"
    /\ Apply("parseExport", ParseEntries(arg))

NextFn ==
    \/ ComputeEnhancedPrompt
    \/ ParseExport
    \/ Summarize
    \/ RunWriting
    \/ GenerateMessage
    \/ Format
    \/ Reconstruct
    \/ FilterConversations
    \/ ParseExportedLines

SpecFn == InitFn /\ [][NextFn]_vars

(***************************************************************************)
(* Properties of the pure functions (checked under SpecFn).                *)
(***************************************************************************)
Applied(f) == mode = "fn" /\ fn = f /\ out # <<>>

\* positions of the opening tags that a closing tag follows, and of the
\* closing tags after position o
OpenedBlocks(s) ==
    {o \in 1..Len(s) : s[o] = OPEN /\ \E c \in (o + 1)..Len(s) : s[c] = CLOSE}
ClosesAfter(s, o) == {c \in (o + 1)..Len(s) : s[c] = CLOSE}
Least(S) == CHOOSE i \in S : \A j \in S : i <= j

\* t occurs in s as a contiguous piece
Contains(s, t) ==
    \E i \in 0..(Len(s) - Len(t)) : SubSeq(s, i + 1, i + Len(t)) = t

\* C24: when the raw planning result holds an opening tag followed later by
\* a closing tag, the enhanced prompt is exactly the trimmed text between
\* the first opening tag and the first closing tag after it, whatever the
\* template: nothing of the text outside the block, and no tag, is in it.
C24_BlockIsExtracted ==
    (Applied("enhancedUserPrompt") /\ OpenedBlocks(arg.planningResult) # {})
    => LET s == arg.planningResult
           o == Least(OpenedBlocks(s))
           c == Least(ClosesAfter(s, o))
       IN  /\ out[1] = Trim(SubSeq(s, o + 1, c - 1))
           /\ Len(out[1]) <= c - o - 1
           /\ \A i \in 1..Len(out[1]) : out[1][i] # CLOSE
           /\ (out[1] # <<>> =>
                 out[1][1] \notin Whitespace /\ out[1][Len(out[1])] \notin Whitespace)

C24_Witness ==
    /\ Applied("enhancedUserPrompt")
    /\ arg.planningResult = <<"a", OPEN, SP, "a", CLOSE>>
    /\ out[1] = <<"a">>

\* C25: when the raw planning result holds no complete block, the enhanced
\* prompt is the planner's user prompt template with its placeholders
\* replaced, and the whole raw result is in it, whichever template the
\* planner has loaded.
C25_FallbackHoldsRawResult ==
    (Applied("enhancedUserPrompt") /\ OpenedBlocks(arg.planningResult) = {})
    => /\ out[1] = RenderTemplate(LoadUserPromptTemplate(arg.files),
                                  (PH_TODAY_DATE :> <<TodayDate>>)
                                  @@ (PH_COLLECTED_INFO :> arg.planningResult))
       /\ Contains(out[1], arg.planningResult)

\* the last line of this kind before position p, 0 when there is none
LastBefore(lines, p, kind) ==
    LET before == {i \in 1..(p - 1) : lines[i].kind = kind}
    IN  IF before = {} THEN 0 ELSE CHOOSE i \in before : \A j \in before : j <= i

\* the content lines that stand under a header: a timestamp line and a
\* sender line both precede them
ContentUnderHeader(lines) ==
    {p \in 1..Len(lines) :
        /\ lines[p].kind = "text"
        /\ LastBefore(lines, p, "timestamp") # 0
        /\ LastBefore(lines, p, "sender") # 0}

\* the k-th smallest element of a set of positions
RECURSIVE Nth(_, _)
Nth(S, k) == IF k = 1 THEN Least(S) ELSE Nth(S \ {Least(S)}, k - 1)

\* C26: every content line under a header gives one message of its own, in
\* line order, carrying the timestamp and the sender of the header lines last
\* seen before it; so n consecutive content lines under one unchanged header
\* give n consecutive messages with that header's timestamp and sender.
C26_OneMessagePerContentLine ==
    Applied("parseLines")
    => LET lines == arg.lines
           content == ContentUnderHeader(lines)
           msgs == out[1]
       IN  /\ Len(msgs) = Cardinality(content)
           /\ \A k \in 1..Len(msgs) :
                LET p == Nth(content, k)
                IN  /\ msgs[k].text = Trim(lines[p].text)
                    /\ msgs[k].timestamp = lines[LastBefore(lines, p, "timestamp")].at
                    /\ msgs[k].sender = lines[LastBefore(lines, p, "sender")].who
           /\ \A p \in content :
                (p + 1 \in content)
                => \E k \in 1..(Len(msgs) - 1) :
                      /\ Nth(content, k) = p
                      /\ msgs[k].timestamp = msgs[k + 1].timestamp
                      /\ msgs[k].sender = msgs[k + 1].sender

C26_Witness ==
    /\ Applied("parseLines")
    /\ arg.lines = <<TimestampLine(3), SenderLine("Me"),
                     TextLine(<<"hi">>), TextLine(<<SP, "yo", SP>>)>>
    /\ Len(out[1]) = 2
    /\ out[1][1].timestamp = out[1][2].timestamp
    /\ out[1][1].sender = out[1][2].sender

\* the source conversations last active within the closed range
ActiveWithin(conversations, startDate, endDate) ==
    {i \in 1..Len(conversations) :
        /\ conversations[i].updated_at # NaN
        /\ startDate <= conversations[i].updated_at
        /\ conversations[i].updated_at <= endDate}

ValidTreeArg ==
    /\ Carrier(arg.chat_messages, arg.current_leaf_message_uuid) # 0
    /\ AcyclicFrom(arg.chat_messages,
                   Carrier(arg.chat_messages, arg.current_leaf_message_uuid))
    /\ \A i, j \in 1..Len(arg.chat_messages) :
          arg.chat_messages[i].uuid = arg.chat_messages[j].uuid => i = j

NonDecreasing(msgs) ==
    \A k \in 1..(Len(msgs) - 1) : msgs[k].created_at <= msgs[k + 1].created_at

\* no message on the leaf's parent chain was created before its parent
NoChildOlderThanParent ==
    NonDecreasing(ChainFrom(arg.chat_messages,
                            Carrier(arg.chat_messages, arg.current_leaf_message_uuid),
                            Len(arg.chat_messages)))

\* C28 as stated: for any acyclic message set with a valid leaf id the
\* creation times of the returned sequence are non-decreasing.
C28_AsStated ==
    (Applied("constructTree") /\ ValidTreeArg) => NonDecreasing(out[1])

\* C28 amended: for an acyclic message set with a valid leaf id the returned
\* sequence is in parent-chain order (each element is the parent of the
\* next, the leaf last); constructTree never reorders by time, so the
\* creation times are non-decreasing whenever no message on the chain was
\* created before its parent.
C28_ChainOrderKeepsTimes ==
    (Applied("constructTree") /\ ValidTreeArg)
    => /\ \A k \in 1..(Len(out[1]) - 1) :
             out[1][k + 1].parent_message_uuid = out[1][k].uuid
       /\ (out[1] # <<>> =>
             out[1][Len(out[1])].uuid = arg.current_leaf_message_uuid)
       /\ (NoChildOlderThanParent => NonDecreasing(out[1]))

C28_Witness ==
    /\ Applied("constructTree") /\ ValidTreeArg /\ NoChildOlderThanParent
    /\ Len(out[1]) >= 2
    /\ out[1][1].created_at < out[1][2].created_at

\* the texts a message carries besides a direct text, in order: those
\* extracted from its attachments, then those of its text-typed blocks
PiecesOf(msg) ==
    (IF "attachments" \in DOMAIN msg
     THEN [i \in 1..Len(msg.attachments) |-> msg.attachments[i].extracted_content]
     ELSE <<>>)
    \o (IF "content" \in DOMAIN msg
        THEN LET texts == SelectSeq(msg.content, LAMBDA c : c.type = "text")
             IN  [i \in 1..Len(texts) |-> texts[i].text]
        ELSE <<>>)

\* C29: formatMessages gives one entry per message, in order; its text is
\* the trimmed direct text when the message has one, and otherwise the
\* attachment texts followed by the text-block texts with a blank line
\* between every two adjacent pieces, trimmed; a message without any text
\* gives an entry with the empty text.
C29_PiecesSeparatedByBlankLine ==
    Applied("formatMessages")
    => /\ Len(out[1]) = Len(arg)
       /\ \A k \in 1..Len(arg) :
             /\ out[1][k].uuid = arg[k].uuid
             /\ out[1][k].text =
                   IF "text" \in DOMAIN arg[k] THEN Trim(arg[k].text)
                   ELSE Trim(Join(PiecesOf(arg[k]), <<NL, NL>>))

(***************************************************************************)
(* Further properties of the output directory (checked under SpecStore).   *)
(***************************************************************************)
\* the timestamped files of function `after` include those of `before`,
\* unchanged, and add at most the file of timestamp ts
KeepsTimestamped(before, after, ts) ==
    /\ \A t \in DOMAIN before : t # ts => (t \in DOMAIN after /\ after[t] = before[t])
    /\ DOMAIN before \subseteq DOMAIN after
    /\ DOMAIN after \subseteq DOMAIN before \cup {ts}

\* a step of a run (any step but the removal of a file by somebody else)
\* leaves every timestamped file of another timestamp as it is and creates
\* no file but those of the run's own timestamp
C30_Step ==
    (mode = "store" /\ removals' = removals)
    => /\ KeepsTimestamped(disk.results, disk'.results, clock)
       /\ KeepsTimestamped(disk.histories, disk'.histories, clock)

\* as long as nobody removes a file, the raw result of every earlier
\* completed run is on the directory as that run wrote it, beside its
\* transcript
C30_Invariant ==
    (mode = "store" /\ removals = 0)
    => \A i \in 1..Len(runLog) :
          runLog[i].ended = "returned"
          => /\ runLog[i].ts \in DOMAIN disk.results
             /\ disk.results[runLog[i].ts] = runLog[i].result
             /\ runLog[i].ts \in DOMAIN disk.histories

\* C30: a planning run writes only the enhanced-prompt file, the metadata
\* record and the two files named by its own timestamp; the timestamped raw
\* result and transcript of every earlier run stay on the directory with
\* unchanged content through any number of later runs.
C30_EarlierRunsKept == []C30_Invariant /\ [][C30_Step]_vars

C30_Witness ==
    /\ mode = "store" /\ removals = 0 /\ pc = "returned"
    /\ Len(runLog) >= 1 /\ runLog[1].ended = "returned"
    /\ runLog[1].result # planningResult
    /\ disk.results[runLog[1].ts] = runLog[1].result
    /\ disk.results[clock] = planningResult
    /\ Cardinality(DOMAIN disk.histories) = 2

\* C31: the writing phase sends the enhanced prompt of the latest plan
\* whenever loading it succeeded, and the default prompt, without aborting,
\* when loading failed; in generateMessage a supplied enhanced prompt is
\* used before the legacy planner, and an enabled legacy planner's prompt
\* before the default prompt.
C31_PromptPriority ==
    /\ Applied("runWriting")
       => IF arg.kind = "return"
          THEN out[1] = [from |-> "enhanced", prompt |-> arg.value.enhancedUserPrompt]
          ELSE out[1] = [from |-> "default", prompt |-> DefaultUserPrompt]
    /\ Applied("generateMessage")
       => IF arg.customUserPrompt # <<>>
          THEN out[1] = [from |-> "enhanced", prompt |-> arg.customUserPrompt[1]]
          ELSE IF arg.usePlanner
          THEN out[1] = [from |-> "planner", prompt |-> LegacyPlannerPrompt]
          ELSE out[1] = [from |-> "default", prompt |-> DefaultUserPrompt]

(***************************************************************************)
(* Further properties of _savePlanningResult (checked under Spec).         *)
(***************************************************************************)
\* the run whose metadata record is on the directory wrote the files the
\* record references: its raw result and transcript are there under its
\* timestamp and the prompt file holds the enhanced prompt of its raw result
ReferencesOwnFiles(d) ==
    LET metadata == JSONParse(d.metadata[1])
        ts == metadata.timestamp
    IN  /\ \A path \in {metadata.promptPath, metadata.fullResultPath,
                        metadata.conversationPath} : ExistsSync(d, path)
        /\ ts \in DOMAIN d.results /\ ts \in DOMAIN d.histories
        /\ d.prompt[1] = EnhancedUserPrompt(d.results[ts])

\* C32: the metadata record of a run is written only after the run's
\* enhanced-prompt file, raw-result file and transcript file have been
\* written; hence whenever a metadata record exists, every path it
\* references designates a file written by the run that wrote the record.
C32_MetadataReferencesOwnFiles ==
    mode = "plan"
    => /\ (disk.metadata # disk0.metadata
            => /\ pc = "returned"
               /\ clock \in DOMAIN disk.results /\ clock \in DOMAIN disk.histories
               /\ disk.prompt = <<EnhancedUserPrompt(planningResult)>>)
       /\ (disk.metadata # <<>> => ReferencesOwnFiles(disk))

\* the lines of this kind
LinesOfKind(lines, kind) == {p \in 1..Len(lines) : lines[p].kind = kind}

\* the first position by which both a timestamp line and a sender line have
\* been read, 0 when the file has no complete header
FirstCompleteHeader(lines) ==
    LET done == {p \in 1..Len(lines) :
                    /\ \E i \in 1..p : lines[i].kind = "timestamp"
                    /\ \E i \in 1..p : lines[i].kind = "sender"}
    IN  IF done = {} THEN 0 ELSE Least(done)

\* C33: a message is emitted only for a line that is neither a timestamp
\* line, a sender line nor a path line, and only once a timestamp line and a
\* sender line have both been read in the file; it carries the timestamp and
\* the sender last read before it, so no content line before the first
\* complete header gives a message.
C33_OnlyContentUnderHeader ==
    Applied("parseLines")
    => LET lines == arg.lines
           msgs == out[1]
           h == FirstCompleteHeader(lines)
       IN  /\ \A k \in 1..Len(msgs) :
                /\ msgs[k].sender # NULL /\ msgs[k].timestamp # NoDate
                /\ \E p \in LinesOfKind(lines, "text") :
                      /\ p > h /\ h # 0
                      /\ msgs[k].text = Trim(lines[p].text)
                      /\ msgs[k].timestamp = lines[LastBefore(lines, p, "timestamp")].at
                      /\ msgs[k].sender = lines[LastBefore(lines, p, "sender")].who
           /\ Len(msgs) <= Cardinality({p \in LinesOfKind(lines, "text") : h # 0 /\ p > h})
           /\ (h = 0 => msgs = <<>>)

C33_Witness ==
    /\ Applied("parseLines")
    /\ arg.lines = <<TextLine(<<"hi">>), TimestampLine(3), TextLine(<<SP, "yo", SP>>),
                     SenderLine("Me"), TextLine(<<"hi">>)>>
    /\ Len(out[1]) = 1
    /\ out[1][1].timestamp = 3 /\ out[1][1].sender = "Me"

\* the greatest timestamp among these messages
GreatestTimestamp(msgs) ==
    CHOOSE t \in {msgs[k].timestamp : k \in 1..Len(msgs)} :
        \A k \in 1..Len(msgs) : msgs[k].timestamp <= t

\* C34: every summary returned carries the number of messages parsed from
\* its conversation's file as messageCount and the greatest timestamp among
\* them as lastMessageDate, whatever the order of the timestamp lines.
C34_SummaryFromParsedMessages ==
    Applied("summarize")
    => /\ Len(out[1].summaries) = Len(out[1].parsedData)
       /\ \A i \in 1..Len(out[1].summaries) :
             LET msgs == out[1].parsedData[i].messages
             IN  /\ out[1].summaries[i].id = out[1].parsedData[i].id
                 /\ out[1].summaries[i].messageCount = Len(msgs)
                 /\ out[1].summaries[i].lastMessageDate = GreatestTimestamp(msgs)

(***************************************************************************)
(* The lineage constructTree returns (checked under SpecTree).             *)
(***************************************************************************)
\* the leaf and its ancestors: the messages met walking parent references
\* from the message that carries the leaf id
LeafLineage ==
    LET chain == ChainFrom(chat_messages, Carrier(chat_messages, leaf),
                           Len(chat_messages) + 1)
    IN  {chain[k] : k \in 1..Len(chain)}

\* message i is on a sibling branch: it is not the leaf or one of its
\* ancestors, yet one of its own ancestors is
OnSiblingBranch(i) ==
    LET own == ChainFrom(chat_messages, i, Len(chat_messages) + 1)
    IN  /\ chat_messages[i] \notin LeafLineage
        /\ \E k \in 1..Len(own) : own[k] \in LeafLineage

\* C35: every element of constructTree's result is the leaf or an ancestor
\* of the leaf, each element after the first has the element before it as
\* its parent, and no message of a sibling branch is in the result.
C35_OnlyLeafLineage ==
    (mode = "tree" /\ tpc = "returned")
    => /\ \A k \in 1..Len(allMessages) : allMessages[k] \in LeafLineage
       /\ \A k \in 1..(Len(allMessages) - 1) :
             allMessages[k + 1].parent_message_uuid = allMessages[k].uuid
       /\ \A i \in 1..Len(chat_messages) :
             OnSiblingBranch(i)
             => \A k \in 1..Len(allMessages) : allMessages[k] # chat_messages[i]

\* a two-element result while a message of a sibling branch is in the set
C35_Witness ==
    /\ mode = "tree" /\ tpc = "returned"
    /\ Len(allMessages) = 2
    /\ \E i \in 1..Len(chat_messages) : OnSiblingBranch(i)

(***************************************************************************)
(* Header-on-change in the export parser (checked under SpecFn).          *)
(***************************************************************************)
\* the lines of this kind strictly between positions p and q
LinesBetween(lines, p, q, kind) == {i \in (p + 1)..(q - 1) : lines[i].kind = kind}

Greatest(S) == CHOOSE i \in S : \A j \in S : j <= i

\* the entry of the export that a conversation id names
EntryOf(entries, id) == entries[CHOOSE e \in 1..Len(entries) : entries[e].file[1] = id]

\* C36: the parser follows header-on-change. Between two consecutive
\* messages of a file, a new timestamp line without a new sender line keeps
\* the sender and gives the new timestamp, and a new sender line without a
\* new timestamp line keeps the timestamp and gives the new sender. Sender
\* and timestamp are unset at the start of each file: the messages of a
\* conversation are exactly the content lines standing under a timestamp
\* line and a sender line of their own file, and carry those lines' values.
C36_HeaderOnChangePerFile ==
    /\ Applied("parseLines")
       => LET lines == arg.lines
              content == ContentUnderHeader(lines)
              msgs == out[1]
          IN  /\ Len(msgs) = Cardinality(content)
              /\ \A k \in 1..(Len(msgs) - 1) :
                    LET ts == LinesBetween(lines, Nth(content, k), Nth(content, k + 1),
                                      "timestamp")
                        sd == LinesBetween(lines, Nth(content, k), Nth(content, k + 1),
                                      "sender")
                    IN  /\ (ts # {} /\ sd = {})
                           => /\ msgs[k + 1].sender = msgs[k].sender
                              /\ msgs[k + 1].timestamp = lines[Greatest(ts)].at
                        /\ (sd # {} /\ ts = {})
                           => /\ msgs[k + 1].timestamp = msgs[k].timestamp
                              /\ msgs[k + 1].sender = lines[Greatest(sd)].who
    /\ Applied("parseExport")
       => /\ \A e \in 1..Len(arg) :
                (ContentUnderHeader(arg[e].lines) = {})
                => \A c \in 1..Len(out[1]) : out[1][c].id # arg[e].file[1]
          /\ \A c \in 1..Len(out[1]) :
                LET lines == EntryOf(arg, out[1][c].id).lines
                    content == ContentUnderHeader(lines)
                    msgs == out[1][c].messages
                IN  /\ Len(msgs) = Cardinality(content)
                    /\ \A k \in 1..Len(msgs) :
                          LET p == Nth(content, k)
                          IN  /\ msgs[k].timestamp
                                   = lines[LastBefore(lines, p, "timestamp")].at
                              /\ msgs[k].sender
                                   = lines[LastBefore(lines, p, "sender")].who

\* the first file ends under a complete header and the second one has a
\* content line under a sender line but no timestamp line of its own: only
\* the first file gives a conversation
C36_Witness ==
    /\ Applied("parseExport")
    /\ arg[1].lines = <<TimestampLine(3), SenderLine("Me"), TextLine(<<"hi">>)>>
    /\ arg[2].lines = <<SenderLine("+1666"), TextLine(<<"hi">>)>>
    /\ Len(out[1]) = 1
    /\ out[1][1].id = "+1555"

(***************************************************************************)
(* The shape of the transcript (checked under Spec).                       *)
(***************************************************************************)
\* the role the i-th turn has when the turns alternate from a user turn
AlternatingRole(i) == IF i % 2 = 1 THEN "user" ELSE "assistant"

\* C37: throughout a planning run the turns alternate user, assistant,
\* user, ... from the opening user turn; whenever the loop is about to call
\* the model the last turn is a user turn and the transcript has
\* 2 * (completed tool rounds) + 1 turns; every assistant turn that is not
\* the last turn requests a tool; and once the run has left the loop with a
\* final answer the last turn is an assistant turn without a tool call.
C37_TurnsAlternate ==
    mode = "plan"
    => /\ Len(messages) >= 1
       /\ messages[1] = OpeningMessage
       /\ \A i \in 1..Len(messages) : messages[i].role = AlternatingRole(i)
       /\ (pc = "loop"
             => /\ messages[Len(messages)].role = "user"
                /\ Len(messages) = 2 * toolRounds + 1)
       /\ (modelCalls > 0
             => /\ lastSent[Len(lastSent)].role = "user"
                /\ Len(lastSent) % 2 = 1)
       /\ \A i \in AssistantTurns : i < Len(messages) => RequestsTools(i)
       /\ (pc \in SaveStates \cup {"returned"}
             => /\ messages[Len(messages)].role = "assistant"
                /\ ~RequestsTools(Len(messages))
                /\ Len(messages) = 2 * toolRounds + 2)

\* a run that returned after two tool rounds, one of them with several
\* tool calls
C37_Witness ==
    /\ mode = "plan" /\ pc = "returned"
    /\ toolRounds = 2
    /\ Len(messages) = 6
    /\ \E i \in AssistantTurns : Len(ToolUseBlocksOf(messages[i].content)) > 1

(***************************************************************************)
(* One tool-execution step of generatePlan (lines 301-322) on the          *)
(* IMessageConnector of the planner: the for-loop calls _executeTool for   *)
(* each tool_use block, and the connector's call runs as in SpecIMessage.  *)
(***************************************************************************)
\* the tool_use blocks of the step: iMessage tools, with and without a
\* conversation id
StepToolUses ==
    {ToolUse("imessage_get_conversations", DateRange),
     ToolUse("imessage_get_conversation_messages",
             [conversation_id |-> "+1555"] @@ DateRange),
     ToolUse("imessage_get_conversation_messages", DateRange)}

\* lines 185-202: the connector call _executeTool makes for a block
RequestOf(toolBlock) ==
    IF toolBlock.name = "imessage_get_conversations"
    THEN [op |-> "getConversations", conversationId |-> "undefined"]
    ELSE [op |-> "getConversationMessages",
          conversationId |-> Get(toolBlock.input, "conversation_id")]

\* what the awaited connector call gives _executeTool
OutcomeOf(completion) ==
    IF completion.kind = "return" THEN ConnectorReturn(completion.value)
    ELSE ConnectorThrow(completion.message)

\* a loop that does not await: it goes on to the next block at once
MayStartNextUnawaited(cs, idx) == Len(cs) >= idx - 1

\* line 305: the pass for block idx awaits its _executeTool call, so the
\* call of block idx starts when the loop has reached idx and not before
MayStartNext(cs, idx) == Len(cs) = idx - 1

\* the state when the first response has requested these tools
InitStep ==
    /\ mode = "step"
    /\ \E n \in 1..MaxCalls :
          \E shape \in [1..n -> StepToolUses] :
             /\ toolUseBlocks = WithIds(shape, 0)
             /\ messages = PushAssistant(<<OpeningMessage>>, WithIds(shape, 0))
             /\ nextId = n
    /\ pc = "exec" /\ toolIdx = 1 /\ toolResults = <<>>
    /\ iterations = 0 /\ planningResult = <<>> /\ error = <<>>
    /\ disk0 = EmptyDisk /\ disk = EmptyDisk /\ clock = 1
    /\ modelCalls = 1 /\ toolRounds = 0
    /\ lastSent = <<OpeningMessage>> /\ dispatchLog = <<>>
    /\ nVaried = 0 /\ roundVaried = FALSE
    /\ now = 1 /\ tempDir = TempDirAt(0) /\ tmp = NoTree /\ calls = <<>>
    /\ TreeIdle /\ StoreIdle /\ ClaudeIdle /\ FnIdle

\* line 305 up to the connector's await: the call of the next block starts
StepStartsCall ==
    /\ mode = "step" /\ pc = "exec"
    /\ Len(calls) < Len(toolUseBlocks)
    /\ MayStartNext(calls, toolIdx)
    /\ \E removed \in BOOLEAN :
          StartCall(RequestOf(toolUseBlocks[Len(calls) + 1]), removed)

\* lines 305-309: the awaited call has completed, its result is pushed
StepCollects ==
    /\ mode = "step" /\ pc = "exec"
    /\ toolIdx <= Len(calls) /\ calls[toolIdx].pc = "done"
    /\ Dispatch(OutcomeOf(calls[toolIdx].completion[1]))
    /\ UNCHANGED <<nVaried, roundVaried>>

NextStep ==
    \/ StepStartsCall
    \/ ExporterSucceeds
    \/ ExporterFails
    \/ CallReturns
    \/ CallFailsReading
    \/ StepCollects
    \/ ReplyTurn

SpecStep == InitStep /\ [][NextStep]_vars

\* the calls that have started and not completed
Pending == {i \in 1..Len(calls) : calls[i].pc # "done"}

\* the calls whose export subprocess is running or whose export has been
\* written and not yet read
UsingDirectory == {i \in 1..Len(calls) : calls[i].pc \in {"exec", "exported"}}

C38_Invariant ==
    mode = "step"
    => /\ Cardinality(Pending) <= 1
       /\ Cardinality(UsingDirectory) <= 1
       /\ \A i, j \in 1..Len(calls) : i < j => calls[i].pc = "done"
       /\ Len(toolResults) <= Len(calls)

C38_Step ==
    mode = "step"
    => /\ (Len(calls') > Len(calls)) => Pending = {}
       /\ (\E e \in tmp.files : e \notin tmp'.files)
             => \A i \in 1..Len(calls') : calls'[i].pc = "done"

\* C38: within one tool-execution step the connector operations run one at
\* a time: an operation starts only when every earlier one has completed
\* (its _cleanup included), so at most one call is pending, at most one
\* export subprocess or reader uses the temporary directory, and a cleanup
\* that removes files leaves no call that has yet to read them.
C38_OneCallAtATime == []C38_Invariant /\ [][C38_Step]_vars

\* a step of two calls that both ran the export utility and completed, the
\* first one's cleanup having removed its files before the second started
C38_Witness ==
    /\ mode = "step" /\ pc = "loop"
    /\ Len(calls) = 2 /\ Pending = {}
    /\ RanExporter(1) /\ RanExporter(2)
    /\ calls[1].completion[1].kind = "return"
    /\ calls[2].completion[1].kind = "return"
    /\ ~calls[1].dirLeft
    /\ Len(messages) = 3

(***************************************************************************)
(* Termination of constructTree.  The function is synchronous code: once   *)
(* called, its next step is taken whenever it has one.                     *)
(***************************************************************************)
SpecTreeLive == InitTree /\ [][NextTree]_vars /\ WF_vars(NextTree)

\* the parent references met from the leaf run into no cycle
WalkAcyclic ==
    mode = "tree" /\ AcyclicFrom(chat_messages, Carrier(chat_messages, leaf))

\* the topmost message of the leaf's parent chain names a parent that no
\* message of the set carries
DanglingParent ==
    LET chain == ChainFrom(chat_messages, Carrier(chat_messages, leaf),
                           Len(chat_messages))
    IN  /\ chain # <<>>
        /\ chain[1].parent_message_uuid # NULL
        /\ Carrier(chat_messages, chain[1].parent_message_uuid) = 0

\* C39: for a message set whose parent references from the leaf contain no
\* cycle, constructTree returns, having run the body of its loop (lines
\* 16-18) at most as many times as there are messages; when the walk meets
\* a parent reference that names no message of the set it stops there and
\* returns the path collected so far, the whole chain from that message
\* down to the leaf.
C39_TerminatesWithinSize ==
    /\ [](WalkAcyclic => steps <= Len(chat_messages))
    /\ (WalkAcyclic ~> tpc = "returned")
    /\ []((WalkAcyclic /\ DanglingParent /\ tpc = "returned")
            => /\ allMessages = ChainFrom(chat_messages,
                                          Carrier(chat_messages, leaf),
                                          Len(chat_messages))
               /\ steps = Len(allMessages))

\* every message of the set is on the chain, the topmost one names an
\* absent parent: the loop body ran once per message
C39_Witness ==
    /\ WalkAcyclic /\ DanglingParent /\ tpc = "returned"
    /\ Len(chat_messages) = MaxMsgs
    /\ steps = Len(chat_messages)
    /\ Len(allMessages) = Len(chat_messages)

====
